---- MODULE Spec2Model ----
(***************************************************************************)
(* Model of the JWT analysis pipeline of ProyectoFormalesBack:             *)
(*   lexical_analyzer.py   JWTLexer (finite automaton over the token text) *)
(*   syntactic_analyzer.py JSONParser + analyze_syntax                     *)
(*   semantic_analyzer.py  SemanticAnalyzer                                *)
(*   encoder.py            encode_base64url, sign_token, encode_jwt        *)
(*   crypto_verifier.py    decode_base64url, verify_jwt_signature          *)
(*                                                                         *)
(* Texts are sequences of character codes (ASCII / Unicode code points),   *)
(* byte strings are sequences of 0..255.  JSON values are tagged records   *)
(* [t |-> tag, v |-> content].                                             *)
(***************************************************************************)
EXTENDS Integers, Sequences, FiniteSets, TLC

VARIABLES
    token,        \* the token text handed to JWTLexer.analyze / verify_jwt_signature
    header,       \* header map handed to encode_jwt / SemanticAnalyzer.analyze
    payload,      \* payload map handed to encode_jwt / SemanticAnalyzer.analyze
    secret,       \* secret handed to encode_jwt
    header_str,   \* header text handed to analyze_syntax
    payload_str,  \* payload text handed to analyze_syntax
    t_actual,     \* int(time.time())
    pc,           \* position of the request being served
    lexResult,    \* value returned by JWTLexer.analyze
    synResult,    \* value returned by analyze_syntax
    semResult,    \* outcome of SemanticAnalyzer.analyze
    encResult,    \* outcome of encode_jwt
    verSecret,    \* secret handed to verify_jwt_signature
    verResult,    \* value returned by verify_jwt_signature
    plain,        \* text handed to encode_base64url
    encoded,      \* outcome of encode_base64url
    decoded,      \* outcome of decode_base64url
    calls,        \* the invocations of jwt_lexer.analyze in progress, one per request
    lexer,        \* the attributes of the module-level JWTLexer instance
    parser        \* a JSONParser instance: text, cursor i, and the calls in progress

vars == <<token, header, payload, secret, header_str, payload_str, t_actual, pc,
          lexResult, synResult, semResult, encResult, verSecret, verResult,
          plain, encoded, decoded, calls, lexer, parser>>

None == [t |-> "none"]

\* B applied to v: the body B with its local name standing for the value v.
Bind(v, B(_)) == B(v)

----------------------------------------------------------------------------
(* Characters *)

DOT    == 46   \* full stop
EQ     == 61   \* equals sign
MINUS  == 45   \* hyphen-minus
UNDER  == 95   \* underscore
PLUS   == 43   \* plus sign
SLASH  == 47   \* solidus
QUOTE  == 34   \* quotation mark
BSLASH == 92   \* reverse solidus

UpperChars == 65..90
LowerChars == 97..122
DigitChars == 48..57

----------------------------------------------------------------------------
(* str.split('.') and str.rstrip('=') *)

\* The position in s of the k-th occurrence of sep.
SepAt(s, sep, k) ==
    CHOOSE i \in 1..Len(s) :
        s[i] = sep /\ Cardinality({j \in 1..(i - 1) : s[j] = sep}) = k - 1

\* s.split(sep): the pieces of text s between the occurrences of sep.
Split(s, sep) ==
    LET n == Cardinality({i \in 1..Len(s) : s[i] = sep}) IN
    [k \in 1..(n + 1) |->
        SubSeq(s, IF k = 1 THEN 1 ELSE SepAt(s, sep, k - 1) + 1,
                  IF k = n + 1 THEN Len(s) ELSE SepAt(s, sep, k) - 1)]

RECURSIVE RStrip(_, _)
RStrip(s, c) ==
    IF s # <<>> /\ s[Len(s)] = c THEN RStrip(SubSeq(s, 1, Len(s) - 1), c) ELSE s

----------------------------------------------------------------------------
(* lexical_analyzer.py : JWTLexer *)

b_chars == UpperChars \cup LowerChars \cup DigitChars \cup {MINUS, UNDER}
d_chars == {DOT}

start_state == "q0"
final_state == {"q5"}

\* transitions with the delimiter accepted again after the third segment.
transitions_loop ==
    [q0 |-> [b |-> "q1", d |-> "qe"],
     q1 |-> [b |-> "q1", d |-> "q2"],
     q2 |-> [b |-> "q3", d |-> "qe"],
     q3 |-> [b |-> "q3", d |-> "q4"],
     q4 |-> [b |-> "q5", d |-> "qe"],
     q5 |-> [b |-> "q5", d |-> "q4"],
     qe |-> [b |-> "qe", d |-> "qe"]]

transitions ==
    [q0 |-> [b |-> "q1", d |-> "qe"],
     q1 |-> [b |-> "q1", d |-> "q2"],
     q2 |-> [b |-> "q3", d |-> "qe"],
     q3 |-> [b |-> "q3", d |-> "q4"],
     q4 |-> [b |-> "q5", d |-> "qe"],
     q5 |-> [b |-> "q5", d |-> "qe"],
     qe |-> [b |-> "qe", d |-> "qe"]]

get_char_class(char) ==
    IF char \in b_chars THEN "b"
    ELSE IF char \in d_chars THEN "d"
    ELSE "other"

RECURSIVE LexerRun(_, _, _, _)
\* The for-loop of JWTLexer.analyze over tok[lo..hi] from current_state; the range is
\* run as two halves, the second from the state the first one ends in.
LexerRun(current_state, tok, lo, hi) ==
    IF lo > hi \/ current_state = "qe" THEN current_state
    ELSE IF lo = hi
         THEN LET char_class == get_char_class(tok[lo]) IN
              IF char_class = "other" THEN "qe"
              ELSE transitions[current_state][char_class]
    ELSE LET mid == (lo + hi) \div 2 IN
         LexerRun(LexerRun(current_state, tok, lo, mid), tok, mid + 1, hi)

\* analyze returning the split of the text on rejection as well.
LexerAnalyze_partial_split(tok) ==
    LET current_state == LexerRun(start_state, tok, 1, Len(tok))
        tokens == Split(tok, DOT)
    IN  IF current_state \in final_state
        THEN [valid |-> TRUE, tokens |-> tokens,
              header    |-> IF Len(tokens) > 0 THEN tokens[1] ELSE <<>>,
              payload   |-> IF Len(tokens) > 1 THEN tokens[2] ELSE <<>>,
              signature |-> IF Len(tokens) > 2 THEN tokens[3] ELSE <<>>]
        ELSE [valid |-> FALSE, tokens |-> tokens, error |-> "Invalid JWT format"]

LexerAnalyze(tok) ==
    LET current_state == LexerRun(start_state, tok, 1, Len(tok))
        isAccepted == current_state \in final_state
        tokens == Split(tok, DOT)
    IN  IF isAccepted
        THEN [valid |-> TRUE, tokens |-> tokens,
              header    |-> IF Len(tokens) > 0 THEN tokens[1] ELSE <<>>,
              payload   |-> IF Len(tokens) > 1 THEN tokens[2] ELSE <<>>,
              signature |-> IF Len(tokens) > 2 THEN tokens[3] ELSE <<>>]
        ELSE [valid |-> FALSE, tokens |-> <<>>, error |-> "Invalid JWT format"]

----------------------------------------------------------------------------
(* JSON values: Python objects as produced by json.loads / request.get_json *)

JNull       == [t |-> "null",  v |-> <<>>]
JBool(b)    == [t |-> "bool",  v |-> b]
JInt(n)     == [t |-> "int",   v |-> n]
\* The float m * 10^(-e) with e >= 0 as small as possible (1.5 is m = 15, e = 1);
\* e = -1 stands for nan (m = 0), inf (m = 1) and -inf (m = -1).
JFloat(m, e) == [t |-> "float", v |-> <<m, e>>]
JStr(text)  == [t |-> "str",   v |-> text]
JList(xs)   == [t |-> "list",  v |-> xs]
\* A dict is the sequence of its <<key, value>> items in insertion order, keys distinct.
JDict(kvs)  == [t |-> "dict",  v |-> kvs]

\* key in d
Has(d, key) == \E i \in 1..Len(d.v) : d.v[i][1] = key
\* d[key]
Get(d, key) == d.v[CHOOSE i \in 1..Len(d.v) : d.v[i][1] = key][2]

\* isinstance(x, int): bool is a subclass of int in Python.
IsInstanceInt(x) == x.t \in {"int", "bool"}
IsInstanceStr(x) == x.t = "str"
IsInstanceList(x) == x.t = "list"
IsInstanceDict(x) == x.t = "dict"
\* The integer an int or bool compares as (True is 1, False is 0).
IntValue(x) == IF x.t = "bool" THEN (IF x.v THEN 1 ELSE 0) ELSE x.v
\* all(isinstance(s, str) for s in xs)
AllStr(xs) == \A i \in 1..Len(xs.v) : IsInstanceStr(xs.v[i])

K_alg == <<97, 108, 103>>   \* alg
K_typ == <<116, 121, 112>>   \* typ
K_exp == <<101, 120, 112>>   \* exp
K_nbf == <<110, 98, 102>>   \* nbf
K_iat == <<105, 97, 116>>   \* iat
K_iss == <<105, 115, 115>>   \* iss
K_sub == <<115, 117, 98>>   \* sub
K_aud == <<97, 117, 100>>   \* aud
K_permissions == <<112, 101, 114, 109, 105, 115, 115, 105, 111, 110, 115>>   \* permissions
S_HS256 == <<72, 83, 50, 53, 54>>   \* HS256
S_HS384 == <<72, 83, 51, 56, 52>>   \* HS384
S_RS256 == <<82, 83, 50, 53, 54>>   \* RS256
S_JWT   == <<74, 87, 84>>   \* JWT
S_JWP   == <<74, 87, 80>>   \* JWP
S_JWX   == <<74, 87, 88>>   \* JWX
----------------------------------------------------------------------------
(* semantic_analyzer.py : SemanticAnalyzer *)

supported_algorithms == {S_HS256, S_HS384}

Raise(kind, claim) == [ok |-> FALSE, error |-> kind, claim |-> claim]
Passed == [ok |-> TRUE, error |-> "", claim |-> <<>>]

\* _validate_header with the supported-algorithm test dropped.
validate_header_any_alg(h_map) ==
    IF ~Has(h_map, K_alg) THEN Raise("MissingClaimError", K_alg)
    ELSE IF ~Has(h_map, K_typ) THEN Raise("MissingClaimError", K_typ)
    ELSE IF ~IsInstanceStr(Get(h_map, K_alg)) THEN Raise("InvalidDataTypeError", K_alg)
    ELSE IF ~IsInstanceStr(Get(h_map, K_typ)) THEN Raise("InvalidDataTypeError", K_typ)
    ELSE IF Get(h_map, K_typ).v # S_JWT THEN Raise("InvalidValueError", K_typ)
    ELSE Passed

validate_header(h_map) ==
    IF ~Has(h_map, K_alg) THEN Raise("MissingClaimError", K_alg)
    ELSE IF ~Has(h_map, K_typ) THEN Raise("MissingClaimError", K_typ)
    ELSE IF ~IsInstanceStr(Get(h_map, K_alg)) THEN Raise("InvalidDataTypeError", K_alg)
    ELSE IF ~IsInstanceStr(Get(h_map, K_typ)) THEN Raise("InvalidDataTypeError", K_typ)
    ELSE IF Get(h_map, K_alg).v \notin supported_algorithms THEN Raise("InvalidValueError", K_alg)
    ELSE IF Get(h_map, K_typ).v # S_JWT THEN Raise("InvalidValueError", K_typ)
    ELSE Passed

\* check_exp with the expiry comparison made strict.
check_exp_strict(p_map, t) ==
    IF Has(p_map, K_exp)
    THEN IF ~IsInstanceInt(Get(p_map, K_exp)) THEN Raise("InvalidDataTypeError", K_exp)
         ELSE IF t > IntValue(Get(p_map, K_exp)) THEN Raise("ExpirationDateError", K_exp)
         ELSE Passed
    ELSE Passed

\* The exp block of _validate_payload.
check_exp(p_map, t) ==
    IF Has(p_map, K_exp)
    THEN IF ~IsInstanceInt(Get(p_map, K_exp)) THEN Raise("InvalidDataTypeError", K_exp)
         ELSE IF t >= IntValue(Get(p_map, K_exp)) THEN Raise("ExpirationDateError", K_exp)
         ELSE Passed
    ELSE Passed

\* check_nbf with the activation comparison made non-strict.
check_nbf_inclusive(p_map, t) ==
    IF Has(p_map, K_nbf)
    THEN IF ~IsInstanceInt(Get(p_map, K_nbf)) THEN Raise("InvalidDataTypeError", K_nbf)
         ELSE IF t <= IntValue(Get(p_map, K_nbf)) THEN Raise("NotActiveTokenError", K_nbf)
         ELSE Passed
    ELSE Passed

\* The nbf block of _validate_payload.
check_nbf(p_map, t) ==
    IF Has(p_map, K_nbf)
    THEN IF ~IsInstanceInt(Get(p_map, K_nbf)) THEN Raise("InvalidDataTypeError", K_nbf)
         ELSE IF t < IntValue(Get(p_map, K_nbf)) THEN Raise("NotActiveTokenError", K_nbf)
         ELSE Passed
    ELSE Passed

\* The aud block of _validate_payload.
check_aud(p_map) ==
    IF Has(p_map, K_aud)
    THEN LET aud == Get(p_map, K_aud)
             es_string == IsInstanceStr(aud)
             es_list == IsInstanceList(aud) /\ AllStr(aud)
         IN  IF ~(es_string \/ es_list) THEN Raise("InvalidDataTypeError", K_aud) ELSE Passed
    ELSE Passed

validate_payload(p_map, t) ==
    IF ~check_exp(p_map, t).ok THEN check_exp(p_map, t)
    ELSE IF ~check_nbf(p_map, t).ok THEN check_nbf(p_map, t)
    ELSE IF Has(p_map, K_iat) /\ ~IsInstanceInt(Get(p_map, K_iat))
         THEN Raise("InvalidDataTypeError", K_iat)
    ELSE IF Has(p_map, K_iss) /\ ~IsInstanceStr(Get(p_map, K_iss))
         THEN Raise("InvalidDataTypeError", K_iss)
    ELSE IF Has(p_map, K_sub) /\ ~IsInstanceStr(Get(p_map, K_sub))
         THEN Raise("InvalidDataTypeError", K_sub)
    ELSE check_aud(p_map)

\* SemanticAnalyzer.analyze with the clock value t read at its first line.
SemanticAnalyze(header_map, payload_map, t) ==
    IF ~validate_header(header_map).ok THEN validate_header(header_map)
    ELSE validate_payload(payload_map, t)

----------------------------------------------------------------------------
(* UTF-8 : str.encode('utf-8') and bytes.decode('utf-8') *)

IsCont(b) == b \in 128..191

Utf8Char(cp) ==
    IF cp < 128 THEN <<cp>>
    ELSE IF cp < 2048 THEN <<192 + (cp \div 64), 128 + (cp % 64)>>
    ELSE IF cp < 65536
         THEN <<224 + (cp \div 4096), 128 + ((cp \div 64) % 64), 128 + (cp % 64)>>
    ELSE <<240 + (cp \div 262144), 128 + ((cp \div 4096) % 64),
           128 + ((cp \div 64) % 64), 128 + (cp % 64)>>

RECURSIVE Utf8EncodeRange(_, _, _)
\* The bytes of text[lo..hi], the range encoded as two halves.
Utf8EncodeRange(text, lo, hi) ==
    IF lo > hi THEN <<>>
    ELSE IF lo = hi THEN Utf8Char(text[lo])
    ELSE LET mid == (lo + hi) \div 2 IN
         Utf8EncodeRange(text, lo, mid) \o Utf8EncodeRange(text, mid + 1, hi)

\* str.encode('utf-8') raises UnicodeEncodeError for a text with a surrogate code point.
Encodable(text) == \A k \in 1..Len(text) : text[k] \notin 55296..57343

\* text.encode('utf-8') of an encodable text.
Utf8Encode(text) == Utf8EncodeRange(text, 1, Len(text))

\* One byte of bytes.decode('utf-8'): a byte that starts a character appends the
\* character and sets skip to the number of continuation bytes it takes; ok becomes
\* FALSE where Python raises UnicodeDecodeError.
Utf8DecodeStep(bs, i, st) ==
    LET b0 == bs[i]
        n  == Len(bs) - i
        b1 == IF n >= 1 THEN bs[i + 1] ELSE 0
        b2 == IF n >= 2 THEN bs[i + 2] ELSE 0
        b3 == IF n >= 3 THEN bs[i + 3] ELSE 0
    IN
    IF st.skip > 0 THEN [st EXCEPT !.skip = @ - 1]
    ELSE IF b0 < 128 THEN [st EXCEPT !.text = Append(@, b0)]
    ELSE IF b0 \in 194..223 /\ n >= 1 /\ IsCont(b1)
         THEN [st EXCEPT !.text = Append(@, (b0 - 192) * 64 + (b1 - 128)), !.skip = 1]
    ELSE IF /\ b0 \in 224..239 /\ n >= 2 /\ IsCont(b1) /\ IsCont(b2)
            /\ (b0 = 224 => b1 >= 160) /\ (b0 = 237 => b1 <= 159)
         THEN [st EXCEPT !.text = Append(@, (b0 - 224) * 4096 + (b1 - 128) * 64 + (b2 - 128)),
                         !.skip = 2]
    ELSE IF /\ b0 \in 240..244 /\ n >= 3 /\ IsCont(b1) /\ IsCont(b2) /\ IsCont(b3)
            /\ (b0 = 240 => b1 >= 144) /\ (b0 = 244 => b1 <= 143)
         THEN [st EXCEPT !.text = Append(@, (b0 - 240) * 262144 + (b1 - 128) * 4096
                                           + (b2 - 128) * 64 + (b3 - 128)),
                         !.skip = 3]
    ELSE [ok |-> FALSE, text |-> <<>>, skip |-> 0]

RECURSIVE Utf8DecodeRange(_, _, _, _)
\* The decoding of bs[lo..hi] from state st, the range decoded as two halves.
Utf8DecodeRange(bs, lo, hi, st) ==
    IF lo > hi \/ ~st.ok THEN st
    ELSE IF lo = hi THEN Utf8DecodeStep(bs, lo, st)
    ELSE LET mid == (lo + hi) \div 2 IN
         Utf8DecodeRange(bs, mid + 1, hi, Utf8DecodeRange(bs, lo, mid, st))

Utf8Decode(bs) ==
    Bind(Utf8DecodeRange(bs, 1, Len(bs), [ok |-> TRUE, text |-> <<>>, skip |-> 0]),
         LAMBDA st : [ok |-> st.ok, text |-> st.text])

----------------------------------------------------------------------------
(* base64.urlsafe_b64encode / base64.urlsafe_b64decode *)

\* The character of the URL-safe alphabet that stands for the 6-bit value n.
B64Char(n) ==
    IF n < 26 THEN 65 + n
    ELSE IF n < 52 THEN 97 + (n - 26)
    ELSE IF n < 62 THEN 48 + (n - 52)
    ELSE IF n = 62 THEN MINUS
    ELSE UNDER

\* base64.urlsafe_b64encode: 3 bytes to 4 characters, the last group padded with '='.
\* Character j of the output belongs to group g and is its p-th character.
UrlsafeB64Encode(bs) ==
    LET n == Len(bs) IN
    [j \in 1..(4 * ((n + 2) \div 3)) |->
        LET g  == (j - 1) \div 4
            p  == (j - 1) % 4
            b1 == bs[3 * g + 1]
            b2 == IF 3 * g + 2 <= n THEN bs[3 * g + 2] ELSE 0
            b3 == IF 3 * g + 3 <= n THEN bs[3 * g + 3] ELSE 0
        IN  IF p = 0 THEN B64Char(b1 \div 4)
            ELSE IF p = 1 THEN B64Char((b1 % 4) * 16 + (b2 \div 16))
            ELSE IF p = 2
                 THEN IF 3 * g + 2 > n THEN EQ ELSE B64Char((b2 % 16) * 4 + (b3 \div 64))
            ELSE IF 3 * g + 3 > n THEN EQ ELSE B64Char(b3 % 64)]

\* The 6-bit value of a character after urlsafe_b64decode's translation of '-' and
\* '_' to '+' and '/', 64 for a character outside the alphabet.
B64Value(c) ==
    IF c \in UpperChars THEN c - 65
    ELSE IF c \in LowerChars THEN c - 97 + 26
    ELSE IF c \in DigitChars THEN c - 48 + 52
    ELSE IF c \in {PLUS, MINUS} THEN 62
    ELSE IF c \in {SLASH, UNDER} THEN 63
    ELSE 64

\* One character of binascii.a2b_base64 (non-strict): a character outside the alphabet
\* is skipped, a complete pad sequence ends the data (done).
A2bStep(this_ch, st) ==
    IF this_ch = EQ
    THEN IF st.quad_pos >= 2 /\ st.quad_pos + (st.pads + 1) >= 4
         THEN [st EXCEPT !.done = TRUE]
         ELSE [st EXCEPT !.pads = IF st.quad_pos >= 2 THEN @ + 1 ELSE @]
    ELSE Bind(B64Value(this_ch), LAMBDA v :
         IF v >= 64 THEN st
         ELSE IF st.quad_pos = 0
         THEN [st EXCEPT !.quad_pos = 1, !.leftchar = v, !.pads = 0]
         ELSE IF st.quad_pos = 1
              THEN [st EXCEPT !.quad_pos = 2, !.leftchar = v % 16, !.pads = 0,
                              !.out = Append(@, st.leftchar * 4 + (v \div 16))]
         ELSE IF st.quad_pos = 2
              THEN [st EXCEPT !.quad_pos = 3, !.leftchar = v % 4, !.pads = 0,
                              !.out = Append(@, st.leftchar * 16 + (v \div 4))]
         ELSE [st EXCEPT !.quad_pos = 0, !.leftchar = 0, !.pads = 0,
                         !.out = Append(@, st.leftchar * 64 + v)])

RECURSIVE A2bRange(_, _, _, _)
\* The loop of a2b_base64 over s[lo..hi] from state st, the range run as two halves.
A2bRange(s, lo, hi, st) ==
    IF lo > hi \/ st.done THEN st
    ELSE IF lo = hi THEN A2bStep(s[lo], st)
    ELSE LET mid == (lo + hi) \div 2 IN
         A2bRange(s, mid + 1, hi, A2bRange(s, lo, mid, st))

\* binascii.a2b_base64: an incomplete last group raises binascii.Error.
A2bBase64(s) ==
    Bind(A2bRange(s, 1, Len(s),
                  [done |-> FALSE, quad_pos |-> 0, leftchar |-> 0, pads |-> 0, out |-> <<>>]),
         LAMBDA st :
        IF ~st.done /\ st.quad_pos # 0 THEN [ok |-> FALSE, bytes |-> <<>>]
        ELSE [ok |-> TRUE, bytes |-> st.out])

\* base64.urlsafe_b64decode of a str: a non-ASCII character raises ValueError.
UrlsafeB64Decode(s) ==
    IF \E i \in 1..Len(s) : s[i] >= 128 THEN [ok |-> FALSE, bytes |-> <<>>]
    ELSE A2bBase64(s)

----------------------------------------------------------------------------
(* encoder.py : encode_base64url ; crypto_verifier.py, decoder_json.py : decode_base64url *)

\* encode_base64url without the removal of the padding.
encode_base64url_padded(data) == UrlsafeB64Encode(Utf8Encode(data))

encode_base64url(data) == RStrip(UrlsafeB64Encode(Utf8Encode(data)), EQ)

\* str.replace of one character by another.
Replace(s, old, new) == [i \in 1..Len(s) |-> IF s[i] = old THEN new ELSE s[i]]

\* k copies of character c.
Repeat(c, k) == [i \in 1..k |-> c]

\* Lines 21-25 of decode_base64url: base64_string after the substitutions and the
\* padding.
pad_base64(encoded_string) ==
    Bind(Replace(Replace(encoded_string, MINUS, PLUS), UNDER, SLASH), LAMBDA replaced :
    Bind(4 - (Len(replaced) % 4), LAMBDA padding_length :
        IF padding_length # 4 THEN replaced \o Repeat(EQ, padding_length) ELSE replaced))

\* ok is FALSE where decode_base64url raises ValueError.
decode_base64url(encoded_string) ==
    Bind(UrlsafeB64Decode(pad_base64(encoded_string)), LAMBDA decoded_bytes :
        IF ~decoded_bytes.ok THEN [ok |-> FALSE, text |-> <<>>]
        ELSE Utf8Decode(decoded_bytes.bytes))

----------------------------------------------------------------------------
(* json.dumps(obj, separators=(',', ':')) *)

RECURSIVE Digits(_)
\* The decimal digits of the natural number n.
Digits(n) == IF n < 10 THEN <<48 + n>> ELSE Append(Digits(n \div 10), 48 + (n % 10))

RECURSIVE Pow10(_)
Pow10(e) == IF e = 0 THEN 1 ELSE 10 * Pow10(e - 1)

Abs(n) == IF n < 0 THEN -n ELSE n

RECURSIVE ZeroPad(_, _)
\* Digit text ds left-padded with zeros to width w.
ZeroPad(ds, w) == IF Len(ds) >= w THEN ds ELSE ZeroPad(<<48>> \o ds, w)

DumpsInt(n) == (IF n < 0 THEN <<MINUS>> ELSE <<>>) \o Digits(Abs(n))

\* float.__repr__ of m * 10^(-e), in the range printed without an exponent.
DumpsFloat(m, e) ==
    (IF m < 0 THEN <<MINUS>> ELSE <<>>)
    \o Digits(Abs(m) \div Pow10(e)) \o <<DOT>>
    \o (IF e = 0 THEN <<48>> ELSE ZeroPad(Digits(Abs(m) % Pow10(e)), e))

HexDigit(n) == IF n < 10 THEN 48 + n ELSE 97 + (n - 10)

\* \uXXXX
UEscape(cp) ==
    <<BSLASH, 117, HexDigit(cp \div 4096), HexDigit((cp \div 256) % 16),
      HexDigit((cp \div 16) % 16), HexDigit(cp % 16)>>

\* The escape json.dumps (ensure_ascii) writes for one character of a string.
EscapeChar(c) ==
    IF c = QUOTE THEN <<BSLASH, QUOTE>>
    ELSE IF c = BSLASH THEN <<BSLASH, BSLASH>>
    ELSE IF c = 10 THEN <<BSLASH, 110>>
    ELSE IF c = 13 THEN <<BSLASH, 114>>
    ELSE IF c = 9 THEN <<BSLASH, 116>>
    ELSE IF c = 8 THEN <<BSLASH, 98>>
    ELSE IF c = 12 THEN <<BSLASH, 102>>
    ELSE IF c \in 32..126 THEN <<c>>
    ELSE IF c < 65536 THEN UEscape(c)
    ELSE UEscape(55296 + ((c - 65536) \div 1024)) \o UEscape(56320 + ((c - 65536) % 1024))

RECURSIVE EscapeText(_)
EscapeText(text) ==
    IF text = <<>> THEN <<>> ELSE EscapeChar(Head(text)) \o EscapeText(Tail(text))

DumpsStr(text) == <<QUOTE>> \o EscapeText(text) \o <<QUOTE>>

S_null  == <<110, 117, 108, 108>>   \* null
S_true  == <<116, 114, 117, 101>>   \* true
S_false == <<102, 97, 108, 115, 101>>   \* false
RECURSIVE Dumps(_)
RECURSIVE DumpsItems(_, _)
RECURSIVE DumpsPairs(_, _)

\* The elements xs[k..] of a list, joined by commas.
DumpsItems(xs, k) ==
    IF k > Len(xs) THEN <<>>
    ELSE (IF k > 1 THEN <<44>> ELSE <<>>) \o Dumps(xs[k]) \o DumpsItems(xs, k + 1)

\* The items kvs[k..] of a dict as "key":value, joined by commas.
DumpsPairs(kvs, k) ==
    IF k > Len(kvs) THEN <<>>
    ELSE (IF k > 1 THEN <<44>> ELSE <<>>) \o DumpsStr(kvs[k][1]) \o <<58>> \o Dumps(kvs[k][2])
         \o DumpsPairs(kvs, k + 1)

Dumps(x) ==
    IF x.t = "null" THEN S_null
    ELSE IF x.t = "bool" THEN (IF x.v THEN S_true ELSE S_false)
    ELSE IF x.t = "int" THEN DumpsInt(x.v)
    ELSE IF x.t = "float"
         THEN IF x.v[2] >= 0 THEN DumpsFloat(x.v[1], x.v[2])
              ELSE IF x.v[1] = 0 THEN <<78, 97, 78>>
              ELSE IF x.v[1] > 0 THEN <<73, 110, 102, 105, 110, 105, 116, 121>>
              ELSE <<45, 73, 110, 102, 105, 110, 105, 116, 121>>
    ELSE IF x.t = "str" THEN DumpsStr(x.v)
    ELSE IF x.t = "list" THEN <<91>> \o DumpsItems(x.v, 1) \o <<93>>
    ELSE <<123>> \o DumpsPairs(x.v, 1) \o <<125>>

----------------------------------------------------------------------------
(* Python built-ins used by JSONParser: str.isdigit, int(s), int(s, 16), float(s) *)

\* Characters for which str.isdigit() is true: the ASCII digits, and of the other
\* Unicode digits the Arabic-Indic ones and the superscripts 2, 3, 1.
PyIsDigit(c) == c \in DigitChars \cup (1632..1641) \cup {178, 179, 185}

\* Value of a character int() reads as a decimal digit, -1 for any other character.
DecimalValue(c) ==
    IF c \in DigitChars THEN c - 48
    ELSE IF c \in 1632..1641 THEN c - 1632
    ELSE -1

\* Value of a character int(s, 16) reads as a digit, -1 for any other character.
HexValue(c) ==
    IF DecimalValue(c) >= 0 THEN DecimalValue(c)
    ELSE IF c \in 97..102 THEN c - 97 + 10
    ELSE IF c \in 65..70 THEN c - 65 + 10
    ELSE -1

\* Characters int() and float() strip from both ends of their argument.
PyWhitespace == (9..13) \cup (28..32) \cup {133, 160}

RECURSIVE LStripWs(_)
LStripWs(s) == IF s # <<>> /\ Head(s) \in PyWhitespace THEN LStripWs(Tail(s)) ELSE s

RECURSIVE RStripWs(_)
RStripWs(s) ==
    IF s # <<>> /\ s[Len(s)] \in PyWhitespace THEN RStripWs(SubSeq(s, 1, Len(s) - 1)) ELSE s

RECURSIVE DigitsValue(_, _, _, _)
\* Value in the given base of the digit text s[k..] (single underscores allowed
\* between digits), acc being the value read so far; -1 if it is not such a text.
DigitsValue(s, k, base, acc) ==
    IF k > Len(s) THEN acc
    ELSE IF s[k] = UNDER
         THEN IF k = Len(s) \/ s[k + 1] = UNDER THEN -1 ELSE DigitsValue(s, k + 1, base, acc)
         ELSE Bind(IF base = 16 THEN HexValue(s[k]) ELSE DecimalValue(s[k]), LAMBDA d :
              IF d < 0 THEN -1 ELSE DigitsValue(s, k + 1, base, acc * base + d))

\* int(s, base) for base 10 or 16; ok is FALSE where it raises ValueError.
PyInt(s, base) ==
    Bind(RStripWs(LStripWs(s)), LAMBDA stripped :
    Bind(IF stripped # <<>> /\ Head(stripped) \in {PLUS, MINUS}
         THEN Tail(stripped) ELSE stripped, LAMBDA unsigned :
    Bind(IF base = 16 /\ Len(unsigned) >= 2 /\ unsigned[1] = 48 /\ unsigned[2] \in {120, 88}
         THEN IF Len(unsigned) >= 3 /\ unsigned[3] = UNDER
              THEN SubSeq(unsigned, 4, Len(unsigned))
              ELSE SubSeq(unsigned, 3, Len(unsigned))
         ELSE unsigned, LAMBDA digits :
    Bind(IF digits = <<>> \/ Head(digits) = UNDER THEN -1
         ELSE DigitsValue(digits, 1, base, 0), LAMBDA value :
        IF value < 0 THEN [ok |-> FALSE, v |-> 0]
        ELSE [ok |-> TRUE, v |-> IF Head(stripped) = MINUS THEN -value ELSE value]))))

RECURSIVE Normalize(_, _)
\* The float m * 10^(-e) with the trailing zeros of its fraction removed.
Normalize(m, e) == IF e > 0 /\ m % 10 = 0 THEN Normalize(m \div 10, e - 1) ELSE JFloat(m, e)

\* The value of the digit text s as float reads a whole or a fractional part, -1 if
\* it is not a digit text.
FloatDigits(s) == IF s # <<>> /\ Head(s) # UNDER THEN DigitsValue(s, 1, 10, 0) ELSE -1

\* float(s) for a text of digits around one point, as parse_number hands it over; ok is
\* FALSE where float raises ValueError.
PyFloatDecimal(s) ==
    Bind(RStripWs(LStripWs(s)), LAMBDA stripped :
    Bind(Split(IF stripped # <<>> /\ Head(stripped) = MINUS
               THEN Tail(stripped) ELSE stripped, DOT), LAMBDA parts :
        IF Len(parts) # 2 THEN [ok |-> FALSE, v |-> JNull]
        ELSE Bind(FloatDigits(parts[1]), LAMBDA whole :
             Bind(FloatDigits(parts[2]), LAMBDA frac :
                 IF whole < 0 \/ frac < 0 THEN [ok |-> FALSE, v |-> JNull]
                 ELSE Bind(whole * Pow10(Len(parts[2])) + frac, LAMBDA m :
                      [ok |-> TRUE,
                       v  |-> Normalize(IF Head(stripped) = MINUS THEN -m ELSE m,
                                        Len(parts[2]))])))))

----------------------------------------------------------------------------
(* syntactic_analyzer.py : JSONParser.  The cursor i counts from 0 as in the source; *)
(* a result is [ok, v, i]: ok is FALSE where the parser raises, v is the value       *)
(* returned and i the cursor on return.                                              *)

At(text, i) == text[i + 1]

ParseFail(i) == [ok |-> FALSE, v |-> JNull, i |-> i]
ParseOk(v, i) == [ok |-> TRUE, v |-> v, i |-> i]

WsChars == {32, 10, 9, 13}

RECURSIVE skip_ws(_, _)
skip_ws(text, i) ==
    IF i < Len(text) /\ At(text, i) \in WsChars THEN skip_ws(text, i + 1) ELSE i

\* The character peek() returns with the cursor at i, -1 for None.
peek(text, i) ==
    LET j == skip_ws(text, i) IN IF j < Len(text) THEN At(text, j) ELSE -1

\* text.startswith(word, i)
StartsWith(text, word, i) ==
    /\ i + Len(word) <= Len(text)
    /\ \A k \in 1..Len(word) : text[i + k] = word[k]

\* obj[key] = val on the item sequence of a dict.
DictSet(kvs, key, val) ==
    IF \E k \in 1..Len(kvs) : kvs[k][1] = key
    THEN [k \in 1..Len(kvs) |-> IF kvs[k][1] = key THEN <<key, val>> ELSE kvs[k]]
    ELSE Append(kvs, <<key, val>>)

RECURSIVE string_loop(_, _, _)
\* The while loop of parse_string with the cursor at i and out collected so far.
string_loop(text, i, out) ==
    IF i >= Len(text) THEN ParseFail(i)
    ELSE LET c == At(text, i) IN
         IF c = QUOTE THEN ParseOk(out, i + 1)
         ELSE IF c = BSLASH
         THEN IF i + 1 >= Len(text) THEN ParseFail(i)
              ELSE LET nxt == At(text, i + 1) IN
                   IF nxt \in {QUOTE, BSLASH, SLASH} THEN string_loop(text, i + 2, Append(out, nxt))
                   ELSE IF nxt = 110 THEN string_loop(text, i + 2, Append(out, 10))
                   ELSE IF nxt = 116 THEN string_loop(text, i + 2, Append(out, 9))
                   ELSE IF nxt = 114 THEN string_loop(text, i + 2, Append(out, 13))
                   ELSE IF nxt = 117
                   THEN IF i + 6 > Len(text) THEN ParseFail(i)
                        ELSE Bind(PyInt(SubSeq(text, i + 3, i + 6), 16), LAMBDA code :
                             IF ~code.ok \/ code.v < 0 THEN ParseFail(i)
                             ELSE string_loop(text, i + 6, Append(out, code.v)))
                   ELSE ParseFail(i)
         ELSE string_loop(text, i + 1, Append(out, c))

\* parse_string: v is the str returned.
parse_string(text, i) ==
    Bind(skip_ws(text, i), LAMBDA j :
        IF j < Len(text) /\ At(text, j) = QUOTE THEN string_loop(text, j + 1, <<>>)
        ELSE ParseFail(j))

RECURSIVE digit_loop(_, _)
\* while self.peek() and self.peek().isdigit(): self.i += 1  (peek moves the cursor
\* over whitespace each time round).
digit_loop(text, i) ==
    Bind(skip_ws(text, i), LAMBDA j :
        IF j < Len(text) /\ PyIsDigit(At(text, j)) THEN digit_loop(text, j + 1) ELSE j)

\* The conversion at the end of parse_number of num_str = text[start:i].
number_value(text, start, i) ==
    Bind(SubSeq(text, start + 1, i), LAMBDA num_str :
        IF \E k \in 1..Len(num_str) : num_str[k] = DOT
        THEN Bind(PyFloatDecimal(num_str), LAMBDA f :
                  IF f.ok THEN ParseOk(f.v, i) ELSE ParseFail(i))
        ELSE Bind(PyInt(num_str, 10), LAMBDA n :
                  IF n.ok THEN ParseOk(JInt(n.v), i) ELSE ParseFail(i)))

\* The rest of parse_number once the digits before the point have been read: start is
\* where the number began and i2 the cursor after those digits.
number_fraction(text, start, i2) ==
    IF i2 < Len(text) /\ At(text, i2) = DOT
    THEN Bind(skip_ws(text, i2 + 1), LAMBDA i3 :
              IF i3 < Len(text) /\ PyIsDigit(At(text, i3))
              THEN number_value(text, start, digit_loop(text, i3 + 1))
              ELSE ParseFail(i3))
    ELSE number_value(text, start, i2)

parse_number(text, i) ==
    Bind(skip_ws(text, i), LAMBDA start :
    Bind(IF start < Len(text) /\ At(text, start) = MINUS THEN start + 1 ELSE start, LAMBDA i1 :
    Bind(skip_ws(text, i1), LAMBDA j :
        IF j < Len(text) /\ PyIsDigit(At(text, j))
        THEN number_fraction(text, start, digit_loop(text, j + 1))
        ELSE ParseFail(j))))

RECURSIVE parse_value(_, _)
RECURSIVE object_loop(_, _, _)
RECURSIVE array_loop(_, _, _)

\* The end of one round of the loop of parse_object: obj holds the pair just read and
\* j is the cursor peek leaves after it.
object_next(text, j, obj) ==
    IF j < Len(text) /\ At(text, j) = 125 THEN ParseOk(JDict(obj), j + 1)
    ELSE IF j < Len(text) /\ At(text, j) = 44 THEN object_loop(text, j + 1, obj)
    ELSE ParseFail(j)

\* The while True loop of parse_object with the cursor at i and obj built so far.
object_loop(text, i, obj) ==
    Bind(parse_string(text, i), LAMBDA key :
        IF ~key.ok THEN ParseFail(key.i)
        ELSE Bind(skip_ws(text, key.i), LAMBDA k :
             IF ~(k < Len(text) /\ At(text, k) = 58) THEN ParseFail(k)
             ELSE Bind(parse_value(text, k + 1), LAMBDA val :
                  IF ~val.ok THEN ParseFail(val.i)
                  ELSE object_next(text, skip_ws(text, val.i), DictSet(obj, key.v, val.v)))))

parse_object(text, i) ==
    Bind(skip_ws(text, i), LAMBDA i0 :
        IF ~(i0 < Len(text) /\ At(text, i0) = 123) THEN ParseFail(i0)
        ELSE Bind(skip_ws(text, i0 + 1), LAMBDA i1 :
             IF i1 < Len(text) /\ At(text, i1) = 125 THEN ParseOk(JDict(<<>>), i1 + 1)
             ELSE object_loop(text, i1, <<>>)))

\* The end of one round of the loop of parse_array: arr holds the value just read and
\* j is the cursor peek leaves after it.
array_next(text, j, arr) ==
    IF j < Len(text) /\ At(text, j) = 93 THEN ParseOk(JList(arr), j + 1)
    ELSE IF j < Len(text) /\ At(text, j) = 44 THEN array_loop(text, j + 1, arr)
    ELSE ParseFail(j)

\* The while True loop of parse_array with the cursor at i and arr built so far.
array_loop(text, i, arr) ==
    Bind(parse_value(text, i), LAMBDA val :
        IF ~val.ok THEN ParseFail(val.i)
        ELSE array_next(text, skip_ws(text, val.i), Append(arr, val.v)))

parse_array(text, i) ==
    Bind(skip_ws(text, i), LAMBDA i0 :
        IF ~(i0 < Len(text) /\ At(text, i0) = 91) THEN ParseFail(i0)
        ELSE Bind(skip_ws(text, i0 + 1), LAMBDA i1 :
             IF i1 < Len(text) /\ At(text, i1) = 93 THEN ParseOk(JList(<<>>), i1 + 1)
             ELSE array_loop(text, i1, <<>>)))

\* parse_value with the cursor i0 where peek left it on the character c.
value_at(text, i0, c) ==
    IF c = QUOTE
    THEN Bind(parse_string(text, i0), LAMBDA r : IF r.ok THEN ParseOk(JStr(r.v), r.i) ELSE r)
    ELSE IF c = 123 THEN parse_object(text, i0)
    ELSE IF c = 91 THEN parse_array(text, i0)
    ELSE IF PyIsDigit(c) \/ c = MINUS THEN parse_number(text, i0)
    ELSE IF StartsWith(text, S_true, i0) THEN ParseOk(JBool(TRUE), i0 + 4)
    ELSE IF StartsWith(text, S_false, i0) THEN ParseOk(JBool(FALSE), i0 + 5)
    ELSE IF StartsWith(text, S_null, i0) THEN ParseOk(JNull, i0 + 4)
    ELSE ParseFail(i0)

parse_value(text, i) ==
    Bind(skip_ws(text, i), LAMBDA i0 :
        IF i0 < Len(text) THEN value_at(text, i0, At(text, i0)) ELSE ParseFail(i0))

\* JSONParser(text).parse()
parse_json_manual(text) ==
    Bind(parse_value(text, 0), LAMBDA value :
        IF ~value.ok THEN value
        ELSE Bind(skip_ws(text, value.i), LAMBDA j :
             IF j # Len(text) THEN ParseFail(j) ELSE ParseOk(value.v, j)))

----------------------------------------------------------------------------
(* json.loads : the standard library decoder (strict JSON, plus NaN and Infinity). *)
(* A result is [ok, v, i] as for JSONParser; ok is FALSE for json.JSONDecodeError.  *)

S_NaN      == <<78, 97, 78>>   \* NaN
S_Infinity == <<73, 110, 102, 105, 110, 105, 116, 121>>   \* Infinity
S_NegInfinity == <<45, 73, 110, 102, 105, 110, 105, 116, 121>>   \* -Infinity
FloatNaN    == JFloat(0, -1)
FloatInf    == JFloat(1, -1)
FloatNegInf == JFloat(-1, -1)

\* Value of an ASCII hexadecimal digit, -1 for any other character.
AsciiHexValue(c) ==
    IF c \in DigitChars THEN c - 48
    ELSE IF c \in 97..102 THEN c - 97 + 10
    ELSE IF c \in 65..70 THEN c - 65 + 10
    ELSE -1

\* The code unit of the escape \uXXXX whose digits start at cursor i, -1 if there
\* are not four hexadecimal digits there.
loads_hex4(text, i) ==
    IF i + 4 > Len(text) \/ \E k \in 0..3 : AsciiHexValue(At(text, i + k)) < 0 THEN -1
    ELSE AsciiHexValue(At(text, i)) * 4096 + AsciiHexValue(At(text, i + 1)) * 256
         + AsciiHexValue(At(text, i + 2)) * 16 + AsciiHexValue(At(text, i + 3))

RECURSIVE loads_string(_, _, _)
\* scanstring with the cursor at i, past the opening quote, and out collected so far.
loads_string(text, i, out) ==
    IF i >= Len(text) THEN ParseFail(i)
    ELSE LET c == At(text, i) IN
         IF c = QUOTE THEN ParseOk(out, i + 1)
         ELSE IF c < 32 THEN ParseFail(i)
         ELSE IF c # BSLASH THEN loads_string(text, i + 1, Append(out, c))
         ELSE IF i + 1 >= Len(text) THEN ParseFail(i)
         ELSE LET esc == At(text, i + 1) IN
              IF esc \in {QUOTE, BSLASH, SLASH} THEN loads_string(text, i + 2, Append(out, esc))
              ELSE IF esc = 98  THEN loads_string(text, i + 2, Append(out, 8))
              ELSE IF esc = 102 THEN loads_string(text, i + 2, Append(out, 12))
              ELSE IF esc = 110 THEN loads_string(text, i + 2, Append(out, 10))
              ELSE IF esc = 114 THEN loads_string(text, i + 2, Append(out, 13))
              ELSE IF esc = 116 THEN loads_string(text, i + 2, Append(out, 9))
              ELSE IF esc = 117
              THEN Bind(loads_hex4(text, i + 2), LAMBDA uni :
                   Bind(IF /\ i + 7 < Len(text) /\ At(text, i + 6) = BSLASH
                           /\ At(text, i + 7) = 117
                        THEN loads_hex4(text, i + 8) ELSE -1, LAMBDA low :
                       IF uni < 0 THEN ParseFail(i)
                       ELSE IF uni \in 55296..56319 /\ low \in 56320..57343
                       THEN loads_string(text, i + 12,
                                Append(out, 65536 + (uni - 55296) * 1024 + (low - 56320)))
                       ELSE loads_string(text, i + 6, Append(out, uni))))
              ELSE ParseFail(i)

RECURSIVE loads_digits(_, _)
\* The cursor after the run of ASCII digits that starts at i.
loads_digits(text, i) ==
    IF i < Len(text) /\ At(text, i) \in DigitChars THEN loads_digits(text, i + 1) ELSE i

\* The integer written by the ASCII digits text[i:j].
loads_int(text, i, j) == DigitsValue(SubSeq(text, i + 1, j), 1, 10, 0)

\* The float mantissa * 10^(exponent - fracLen), normalised.
loads_float(mantissa, fracLen, exponent) ==
    IF exponent >= fracLen THEN Normalize(mantissa * Pow10(exponent - fracLen), 0)
    ELSE Normalize(mantissa, fracLen - exponent)

\* The value of a number match: its integer part is text[i1:i2], its fraction, if
\* any, text[i2+1:i3], and its exponent, if any, text[expStart:i4].
loads_number_value(text, sign, i1, i2, i3, expStart, i4) ==
    IF i3 = i2 /\ i4 = i3 THEN JInt(sign * loads_int(text, i1, i2))
    ELSE loads_float(
             sign * (loads_int(text, i1, i2) * Pow10(IF i3 > i2 THEN i3 - (i2 + 1) ELSE 0)
                     + (IF i3 > i2 THEN loads_int(text, i2 + 1, i3) ELSE 0)),
             IF i3 > i2 THEN i3 - (i2 + 1) ELSE 0,
             IF i4 = i3 THEN 0
             ELSE IF expStart = i3 + 2 /\ At(text, i3 + 1) = MINUS
                  THEN -loads_int(text, expStart, i4)
                  ELSE loads_int(text, expStart, i4))

\* The number match of the scanner at cursor i: -?(0|[1-9]\d*)(\.\d+)?([eE][-+]?\d+)?
loads_number(text, i) ==
    Bind(IF i < Len(text) /\ At(text, i) = MINUS THEN i + 1 ELSE i, LAMBDA i1 :
    Bind(IF i1 < Len(text) /\ At(text, i1) = 48 THEN i1 + 1
         ELSE loads_digits(text, i1), LAMBDA i2 :
        IF i2 = i1 THEN ParseFail(i)
        ELSE
    Bind(IF /\ i2 + 1 < Len(text) /\ At(text, i2) = DOT
            /\ At(text, i2 + 1) \in DigitChars
         THEN loads_digits(text, i2 + 1) ELSE i2, LAMBDA i3 :
    Bind(IF /\ i3 + 1 < Len(text) /\ At(text, i3) \in {101, 69}
            /\ At(text, i3 + 1) \in {PLUS, MINUS}
         THEN i3 + 2 ELSE i3 + 1, LAMBDA expStart :
    Bind(IF /\ i3 < Len(text) /\ At(text, i3) \in {101, 69}
            /\ expStart < Len(text) /\ At(text, expStart) \in DigitChars
         THEN loads_digits(text, expStart) ELSE i3, LAMBDA i4 :
        ParseOk(loads_number_value(text, IF i1 > i THEN -1 ELSE 1, i1, i2, i3, expStart, i4),
                i4))))))

RECURSIVE loads_value(_, _)
RECURSIVE loads_object(_, _, _)
RECURSIVE loads_array(_, _, _)

\* The end of one item of an object: obj holds the pair just read and k is the cursor
\* after the whitespace behind it.
loads_object_next(text, k, obj) ==
    IF k < Len(text) /\ At(text, k) = 125 THEN ParseOk(JDict(obj), k + 1)
    ELSE IF k < Len(text) /\ At(text, k) = 44 THEN loads_object(text, skip_ws(text, k + 1), obj)
    ELSE ParseFail(k)

\* The items of an object with the cursor at the opening quote of the next key.
loads_object(text, i, obj) ==
    IF ~(i < Len(text) /\ At(text, i) = QUOTE) THEN ParseFail(i)
    ELSE Bind(loads_string(text, i + 1, <<>>), LAMBDA key :
         IF ~key.ok THEN ParseFail(key.i)
         ELSE Bind(skip_ws(text, key.i), LAMBDA j :
              IF ~(j < Len(text) /\ At(text, j) = 58) THEN ParseFail(j)
              ELSE Bind(loads_value(text, skip_ws(text, j + 1)), LAMBDA val :
                   IF ~val.ok THEN ParseFail(val.i)
                   ELSE loads_object_next(text, skip_ws(text, val.i),
                                          DictSet(obj, key.v, val.v)))))

\* The end of one element of an array: arr holds the value just read and k is the
\* cursor after the whitespace behind it.
loads_array_next(text, k, arr) ==
    IF k < Len(text) /\ At(text, k) = 93 THEN ParseOk(JList(arr), k + 1)
    ELSE IF k < Len(text) /\ At(text, k) = 44 THEN loads_array(text, skip_ws(text, k + 1), arr)
    ELSE ParseFail(k)

\* The elements of an array with the cursor at the next element.
loads_array(text, i, arr) ==
    Bind(loads_value(text, i), LAMBDA val :
        IF ~val.ok THEN ParseFail(val.i)
        ELSE loads_array_next(text, skip_ws(text, val.i), Append(arr, val.v)))

\* scan_once at cursor i for a text that starts none of a string, an object or an array.
loads_literal(text, i) ==
    IF StartsWith(text, S_null, i) THEN ParseOk(JNull, i + 4)
    ELSE IF StartsWith(text, S_true, i) THEN ParseOk(JBool(TRUE), i + 4)
    ELSE IF StartsWith(text, S_false, i) THEN ParseOk(JBool(FALSE), i + 5)
    ELSE Bind(loads_number(text, i), LAMBDA n :
         IF n.ok THEN n
         ELSE IF StartsWith(text, S_NaN, i) THEN ParseOk(FloatNaN, i + 3)
         ELSE IF StartsWith(text, S_Infinity, i) THEN ParseOk(FloatInf, i + 8)
         ELSE IF StartsWith(text, S_NegInfinity, i) THEN ParseOk(FloatNegInf, i + 9)
         ELSE ParseFail(i))

\* scan_once at cursor i.
loads_value(text, i) ==
    IF i >= Len(text) THEN ParseFail(i)
    ELSE IF At(text, i) = QUOTE
    THEN Bind(loads_string(text, i + 1, <<>>), LAMBDA r :
              IF r.ok THEN ParseOk(JStr(r.v), r.i) ELSE r)
    ELSE IF At(text, i) = 123
    THEN Bind(skip_ws(text, i + 1), LAMBDA j :
              IF j < Len(text) /\ At(text, j) = 125 THEN ParseOk(JDict(<<>>), j + 1)
              ELSE loads_object(text, j, <<>>))
    ELSE IF At(text, i) = 91
    THEN Bind(skip_ws(text, i + 1), LAMBDA j :
              IF j < Len(text) /\ At(text, j) = 93 THEN ParseOk(JList(<<>>), j + 1)
              ELSE loads_array(text, j, <<>>))
    ELSE loads_literal(text, i)

\* json.loads(text) for a str.
json_loads(text) ==
    IF text # <<>> /\ Head(text) = 65279 THEN ParseFail(0)
    ELSE Bind(loads_value(text, skip_ws(text, 0)), LAMBDA value :
         IF ~value.ok THEN value
         ELSE Bind(skip_ws(text, value.i), LAMBDA j :
              IF j # Len(text) THEN ParseFail(j) ELSE ParseOk(value.v, j)))

----------------------------------------------------------------------------
(* syntactic_analyzer.py : analyze_syntax *)

RECURSIVE IsSubstring(_, _, _)
\* word occurs in text at some cursor >= i.
IsSubstring(word, text, i) ==
    IF i + Len(word) > Len(text) THEN FALSE
    ELSE StartsWith(text, word, i) \/ IsSubstring(word, text, i + 1)

\* The Python expression  key in x  for a str key: "yes", "no", or "TypeError" where
\* x is not a container (int, float, bool, None).
PyIn(key, x) ==
    IF x.t = "dict" THEN (IF Has(x, key) THEN "yes" ELSE "no")
    ELSE IF x.t = "str" THEN (IF IsSubstring(key, x.v, 0) THEN "yes" ELSE "no")
    ELSE IF x.t = "list"
         THEN (IF \E k \in 1..Len(x.v) : x.v[k] = JStr(key) THEN "yes" ELSE "no")
    ELSE "TypeError"

\* Outcome of one block of checks: the errors it appends, or raised where it raises
\* TypeError.
Checked(errors) == [raised |-> FALSE, errors |-> errors]
CheckRaised == [raised |-> TRUE, errors |-> <<>>]

\* The block of key on map m when  key in m  holds: m[key] raises TypeError unless m
\* is a dict.
OnPresent(key, m, errorsIfPresent, errorsIfAbsent) ==
    Bind(PyIn(key, m), LAMBDA present :
        IF present = "TypeError" THEN CheckRaised
        ELSE IF present = "no" THEN Checked(errorsIfAbsent)
        ELSE IF m.t # "dict" THEN CheckRaised
        ELSE Checked(errorsIfPresent))

check_header_alg(hdr) ==
    Bind(PyIn(K_alg, hdr), LAMBDA present :
        IF present = "TypeError" THEN CheckRaised
        ELSE IF present = "no" THEN Checked(<<"Header faltante 'alg'.">>)
        ELSE Checked(<<>>))

\* check_header_typ without the comparison of the value with JWT.
check_header_typ_present(hdr) ==
    OnPresent(K_typ, hdr, <<>>, <<"Header faltante 'typ'.">>)

check_header_typ(hdr) ==
    OnPresent(K_typ, hdr,
        IF hdr.t = "dict" /\ Get(hdr, K_typ) # JStr(S_JWT)
        THEN <<"Header 'typ' debe ser exactamente 'JWT' (FATAL).">> ELSE <<>>,
        <<"Header faltante 'typ'.">>)

check_numeric_date(pl, key, message) ==
    OnPresent(key, pl,
        IF pl.t = "dict" /\ ~IsInstanceInt(Get(pl, key)) THEN <<message>> ELSE <<>>,
        <<>>)

check_syntax_aud(pl) ==
    OnPresent(K_aud, pl,
        IF pl.t # "dict" THEN <<>>
        ELSE Bind(Get(pl, K_aud), LAMBDA aud :
             IF IsInstanceList(aud)
             THEN IF ~AllStr(aud) THEN <<"Claim 'aud' debe ser lista de strings.">> ELSE <<>>
             ELSE IF ~IsInstanceStr(aud) THEN <<"Claim 'aud' debe ser string o lista.">>
             ELSE <<>>),
        <<>>)

check_permissions(pl) ==
    OnPresent(K_permissions, pl,
        IF pl.t # "dict" THEN <<>>
        ELSE Bind(Get(pl, K_permissions), LAMBDA perms :
             IF ~(IsInstanceList(perms) /\ AllStr(perms))
             THEN <<"Claim 'permissions' debe ser lista de strings.">> ELSE <<>>),
        <<>>)

RECURSIVE JoinChecks(_)
\* The blocks in program order: the first one that raises ends the call.
JoinChecks(blocks) ==
    IF blocks = <<>> THEN Checked(<<>>)
    ELSE IF Head(blocks).raised THEN CheckRaised
    ELSE Bind(JoinChecks(Tail(blocks)), LAMBDA rest :
         IF rest.raised THEN CheckRaised ELSE Checked(Head(blocks).errors \o rest.errors))

\* try: parse_json_manual(text)  except: json.loads(text)
parse_with_fallback(text) ==
    Bind(parse_json_manual(text), LAMBDA parsed :
        IF parsed.ok THEN parsed ELSE json_loads(text))

SyntaxResult(valid, hdr, pl, errors) ==
    [raised |-> FALSE, success |-> TRUE, valid |-> valid, header |-> hdr, payload |-> pl,
     errors |-> errors]

\* The call raised TypeError instead of returning a result.
SyntaxRaised ==
    [raised |-> TRUE, success |-> FALSE, valid |-> FALSE, header |-> None, payload |-> None,
     errors |-> <<>>]

\* The checks of analyze_syntax on the parsed header hdr and payload pl, in program
\* order.
syntax_checks(hdr, pl) ==
    JoinChecks(<<
        Checked(IF ~IsInstanceDict(hdr) THEN <<"Header debe ser objeto JSON.">> ELSE <<>>),
        Checked(IF ~IsInstanceDict(pl) THEN <<"Payload debe ser objeto JSON.">> ELSE <<>>),
        check_header_alg(hdr),
        check_header_typ(hdr),
        check_numeric_date(pl, K_iat, "Claim 'iat' debe ser entero."),
        check_numeric_date(pl, K_exp, "Claim 'exp' debe ser entero."),
        check_numeric_date(pl, K_nbf, "Claim 'nbf' debe ser entero."),
        check_syntax_aud(pl),
        check_permissions(pl) >>)

\* analyze_syntax with  "valid": True  in the initial result.
analyze_syntax_valid_default(h_str, p_str) ==
    Bind(parse_with_fallback(h_str), LAMBDA hdr :
        IF ~hdr.ok THEN SyntaxResult(TRUE, None, None, <<"Header invalido">>)
        ELSE Bind(parse_with_fallback(p_str), LAMBDA pl :
             IF ~pl.ok THEN SyntaxResult(TRUE, None, None, <<"Payload invalido">>)
             ELSE Bind(syntax_checks(hdr.v, pl.v), LAMBDA checks :
                  IF checks.raised THEN SyntaxRaised
                  ELSE SyntaxResult(checks.errors = <<>>, hdr.v, pl.v, checks.errors))))

\* analyze_syntax with  result["header"] = header  right after the header is parsed.
analyze_syntax_partial_header(h_str, p_str) ==
    Bind(parse_with_fallback(h_str), LAMBDA hdr :
        IF ~hdr.ok THEN SyntaxResult(FALSE, None, None, <<"Header invalido">>)
        ELSE Bind(parse_with_fallback(p_str), LAMBDA pl :
             IF ~pl.ok THEN SyntaxResult(FALSE, hdr.v, None, <<"Payload invalido">>)
             ELSE Bind(syntax_checks(hdr.v, pl.v), LAMBDA checks :
                  IF checks.raised THEN SyntaxRaised
                  ELSE SyntaxResult(checks.errors = <<>>, hdr.v, pl.v, checks.errors))))

\* The entries stand for  "Header inválido: " + str(e)  and  "Payload inválido: " + str(e).
analyze_syntax(h_str, p_str) ==
    Bind(parse_with_fallback(h_str), LAMBDA hdr :
        IF ~hdr.ok THEN SyntaxResult(FALSE, None, None, <<"Header invalido">>)
        ELSE Bind(parse_with_fallback(p_str), LAMBDA pl :
             IF ~pl.ok THEN SyntaxResult(FALSE, None, None, <<"Payload invalido">>)
             ELSE Bind(syntax_checks(hdr.v, pl.v), LAMBDA checks :
                  IF checks.raised THEN SyntaxRaised
                  ELSE SyntaxResult(checks.errors = <<>>, hdr.v, pl.v, checks.errors))))

----------------------------------------------------------------------------
(* hmac.new(key, msg, digestmod).digest() *)

RECURSIVE RStripZero(_)
RStripZero(bs) ==
    IF bs # <<>> /\ bs[Len(bs)] = 0 THEN RStripZero(SubSeq(bs, 1, Len(bs) - 1)) ELSE bs

\* HMAC pads a key shorter than the hash block with zero bytes, so keys that differ
\* only in trailing zero bytes give the same key block.  The block is represented by
\* the key without its trailing zeros (keys here are shorter than a block).
HmacKeyBlock(key) == RStripZero(key)

HashId(hash_algorithm) == IF hash_algorithm = "sha256" THEN 1 ELSE 2

\* The MAC as an ideal keyed function: equal digests only for equal hash function,
\* key block and message.  The digest is represented by an injective encoding of the
\* three (the length of the real digest, 32 or 48 bytes, is not represented).
HmacDigest(hash_algorithm, key, msg) ==
    Bind(HmacKeyBlock(key), LAMBDA block :
        <<HashId(hash_algorithm), Len(block)>> \o block \o msg)

----------------------------------------------------------------------------
(* encoder.py : sign_token, encode_jwt *)

\* The signature sign_token computes over message; ok is FALSE where it raises:
\* ValueError for an algorithm other than HS256 and HS384, UnicodeEncodeError (a
\* ValueError) for a secret that cannot be encoded.
SignMessage(message, algorithm, secret_text) ==
    IF algorithm # JStr(S_HS256) /\ algorithm # JStr(S_HS384)
    THEN [ok |-> FALSE, error |-> "ValueError", signature |-> <<>>]
    ELSE IF ~Encodable(secret_text) \/ ~Encodable(message)
         THEN [ok |-> FALSE, error |-> "UnicodeEncodeError", signature |-> <<>>]
    ELSE [ok |-> TRUE, error |-> "",
          signature |-> RStrip(UrlsafeB64Encode(
              HmacDigest(IF algorithm = JStr(S_HS256) THEN "sha256" ELSE "sha384",
                         Utf8Encode(secret_text), Utf8Encode(message))), EQ)]

\* sign_token with the message built without the separating dot.
sign_token_no_dot(header_b64, payload_b64, algorithm, secret_text) ==
    SignMessage(header_b64 \o payload_b64, algorithm, secret_text)

\* encoder.sign_token
sign_token(header_b64, payload_b64, algorithm, secret_text) ==
    SignMessage(header_b64 \o <<DOT>> \o payload_b64, algorithm, secret_text)

EncodeRaised(kind, errors, steps) ==
    [raised |-> kind, errors |-> errors, token |-> <<>>, steps |-> steps]

\* encode_jwt with the semantic validation placed before the syntactic validation.
encode_jwt_semantic_first(hdr, pl, secret_text, t) ==
    Bind(Dumps(hdr), LAMBDA header_json :
    Bind(Dumps(pl), LAMBDA payload_json :
    Bind(SemanticAnalyze(hdr, pl, t), LAMBDA semantic :
        IF ~semantic.ok
        THEN EncodeRaised(semantic.error, <<>>, <<"semantic">>)
        ELSE
    Bind(analyze_syntax(header_json, payload_json), LAMBDA syntax_result :
        IF syntax_result.raised THEN EncodeRaised("TypeError", <<>>, <<"semantic", "syntax">>)
        ELSE IF ~syntax_result.valid
             THEN EncodeRaised("ValueError", syntax_result.errors, <<"semantic", "syntax">>)
        ELSE
    Bind(encode_base64url(header_json), LAMBDA header_b64 :
    Bind(encode_base64url(payload_json), LAMBDA payload_b64 :
    Bind(sign_token(header_b64, payload_b64, Get(hdr, K_alg), secret_text), LAMBDA signed :
        IF ~signed.ok
        THEN EncodeRaised(signed.error, <<>>, <<"semantic", "syntax", "base64", "sign">>)
        ELSE [raised |-> "", errors |-> <<>>,
              token |-> header_b64 \o <<DOT>> \o payload_b64 \o <<DOT>> \o signed.signature,
              steps |-> <<"semantic", "syntax", "base64", "sign">>])))))))

\* encode_jwt at clock value t.  raised is "" on return and the exception kind
\* otherwise; steps lists the stages executed, in order.
encode_jwt(hdr, pl, secret_text, t) ==
    Bind(Dumps(hdr), LAMBDA header_json :
    Bind(Dumps(pl), LAMBDA payload_json :
    Bind(analyze_syntax(header_json, payload_json), LAMBDA syntax_result :
        IF syntax_result.raised THEN EncodeRaised("TypeError", <<>>, <<"syntax">>)
        ELSE IF ~syntax_result.valid
             THEN EncodeRaised("ValueError", syntax_result.errors, <<"syntax">>)
        ELSE
    Bind(SemanticAnalyze(hdr, pl, t), LAMBDA semantic :
        IF ~semantic.ok
        THEN EncodeRaised(semantic.error, <<>>, <<"syntax", "semantic">>)
        ELSE
    Bind(encode_base64url(header_json), LAMBDA header_b64 :
    Bind(encode_base64url(payload_json), LAMBDA payload_b64 :
    Bind(sign_token(header_b64, payload_b64, Get(hdr, K_alg), secret_text), LAMBDA signed :
        IF ~signed.ok
        THEN EncodeRaised(signed.error, <<>>, <<"syntax", "semantic", "base64", "sign">>)
        ELSE [raised |-> "", errors |-> <<>>,
              token |-> header_b64 \o <<DOT>> \o payload_b64 \o <<DOT>> \o signed.signature,
              steps |-> <<"syntax", "semantic", "base64", "sign">>])))))))

----------------------------------------------------------------------------
(* crypto_verifier.py : sign_token, verify_jwt_signature *)

\* crypto_verifier.sign_token signing the re-encoding of the decoded segments.
sign_token_verifier_reencoded(header_b64, payload_b64, algorithm, secret_text) ==
    SignMessage(encode_base64url(decode_base64url(header_b64).text) \o <<DOT>>
                \o encode_base64url(decode_base64url(payload_b64).text),
                algorithm, secret_text)

\* crypto_verifier.sign_token
sign_token_verifier(header_b64, payload_b64, algorithm, secret_text) ==
    SignMessage(header_b64 \o <<DOT>> \o payload_b64, algorithm, secret_text)

IsAscii(text) == \A k \in 1..Len(text) : text[k] < 128

\* compare_signatures comparing the token's signature with itself.
compare_signatures_self(signature_b64, recalculated_signature) ==
    Bind(RStrip(signature_b64, EQ), LAMBDA signature_normalized :
        IF ~IsAscii(signature_normalized) THEN "TypeError"
        ELSE IF signature_normalized = signature_normalized THEN "equal" ELSE "different")

\* Lines 127-131: both signatures without trailing '=' handed to hmac.compare_digest,
\* which raises TypeError for a str with a non-ASCII character.
compare_signatures(signature_b64, recalculated_signature) ==
    Bind(RStrip(signature_b64, EQ), LAMBDA signature_normalized :
    Bind(RStrip(recalculated_signature, EQ), LAMBDA recalculated_normalized :
        IF ~IsAscii(signature_normalized) \/ ~IsAscii(recalculated_normalized) THEN "TypeError"
        ELSE IF signature_normalized = recalculated_normalized THEN "equal" ELSE "different"))

VerifyInvalid(error) ==
    [valid |-> FALSE, error |-> error, algorithm |-> None, header |-> None, payload |-> None]

\* json.loads(decode_base64url(segment)); ok is FALSE where either raises.
decode_segment(segment_b64) ==
    Bind(decode_base64url(segment_b64), LAMBDA segment_json :
        IF segment_json.ok THEN json_loads(segment_json.text) ELSE ParseFail(0))

\* verify_signature decoding the payload before the comparison and returning it with
\* the mismatch result as well.
verify_signature_payload_first(header_b64, payload_b64, signature_b64, secret_text, hdr, algorithm) ==
    Bind(sign_token_verifier(header_b64, payload_b64, algorithm, secret_text),
         LAMBDA recalculated :
        IF ~recalculated.ok THEN VerifyInvalid("sign")
        ELSE Bind(decode_segment(payload_b64), LAMBDA pl :
             IF ~pl.ok THEN VerifyInvalid("payload_decode")
             ELSE Bind(compare_signatures(signature_b64, recalculated.signature),
                       LAMBDA comparison :
                  IF comparison = "TypeError" THEN VerifyInvalid("unexpected")
                  ELSE IF comparison = "different"
                  THEN [valid |-> FALSE, error |-> "signature_mismatch",
                        algorithm |-> algorithm, header |-> hdr, payload |-> pl.v]
                  ELSE [valid |-> TRUE, error |-> "", algorithm |-> algorithm,
                        header |-> hdr, payload |-> pl.v])))

\* Lines 116-154 of verify_jwt_signature: the signature is recalculated and compared,
\* then the payload decoded.
verify_signature(header_b64, payload_b64, signature_b64, secret_text, hdr, algorithm) ==
    Bind(sign_token_verifier(header_b64, payload_b64, algorithm, secret_text),
         LAMBDA recalculated :
        IF ~recalculated.ok THEN VerifyInvalid("sign")
        ELSE Bind(compare_signatures(signature_b64, recalculated.signature),
                  LAMBDA comparison :
             IF comparison = "TypeError" THEN VerifyInvalid("unexpected")
             ELSE IF comparison = "different"
             THEN [valid |-> FALSE, error |-> "signature_mismatch",
                   algorithm |-> algorithm, header |-> hdr, payload |-> None]
             ELSE Bind(decode_segment(payload_b64), LAMBDA pl :
                  IF ~pl.ok THEN VerifyInvalid("payload_decode")
                  ELSE [valid |-> TRUE, error |-> "", algorithm |-> algorithm,
                        header |-> hdr, payload |-> pl.v])))

\* Lines 89-154 of verify_jwt_signature, the token being split into three parts.
verify_parts(header_b64, payload_b64, signature_b64, secret_text) ==
    Bind(decode_segment(header_b64), LAMBDA hdr :
        IF ~hdr.ok THEN VerifyInvalid("header_decode")
        ELSE Bind(PyIn(K_alg, hdr.v), LAMBDA present :
             IF present = "TypeError" THEN VerifyInvalid("unexpected")
             ELSE IF present = "no" THEN VerifyInvalid("no_alg")
             ELSE IF hdr.v.t # "dict" THEN VerifyInvalid("unexpected")
             ELSE IF Get(hdr.v, K_alg) \notin {JStr(S_HS256), JStr(S_HS384)}
             THEN VerifyInvalid("unsupported_alg")
             ELSE verify_signature(header_b64, payload_b64, signature_b64, secret_text,
                                   hdr.v, Get(hdr.v, K_alg))))

\* verify_jwt_signature.  error names the return taken: "format" (not three parts),
\* "header_decode", "no_alg", "unsupported_alg", "sign", "signature_mismatch",
\* "payload_decode", "unexpected" (the outer except), "" when valid.
verify_jwt_signature(jwt_token, secret_text) ==
    Bind(Split(jwt_token, DOT), LAMBDA parts :
        IF Len(parts) # 3 THEN VerifyInvalid("format")
        ELSE verify_parts(parts[1], parts[2], parts[3], secret_text))

----------------------------------------------------------------------------
(* Lexical phase: GET /analyze/lexical/<jwt> *)

MaxTokenLen == 7

\* Characters the scanned texts are drawn from: two of class b, the delimiter, one of class other.
LexAlphabet == {97, UNDER, DOT, 33}

SeqsUpTo(S, n) == UNION {[1..k -> S] : k \in 0..n}

LexExamples ==
    { <<97, 98, 99, 46, 100, 101, 102, 46, 103, 104, 105>>,
      <<97, 98, 99, 46, 46, 103, 104, 105>>,
      <<97, 98, 99, 46, 100, 101, 102>>,
      <<97, 98, 99, 46, 100, 101, 102, 46, 103, 104, 105, 46, 106, 107, 108>>,
      <<97, 98, 33, 99, 46, 100, 101, 102, 46, 103, 104, 105>> }

LexInputs == SeqsUpTo(LexAlphabet, MaxTokenLen) \cup LexExamples

InitLex ==
    /\ token \in LexInputs
    /\ pc = "lexical"
    /\ lexResult = None
    /\ header = None /\ payload = None /\ secret = None
    /\ header_str = None /\ payload_str = None /\ t_actual = 0
    /\ synResult = None /\ semResult = None /\ encResult = None
    /\ verSecret = None /\ verResult = None
    /\ plain = None /\ encoded = None /\ decoded = None
    /\ calls = None /\ lexer = None /\ parser = None

\* analyze_jwt: result = jwt_lexer.analyze(jwt)
analyze_jwt ==
    /\ pc = "lexical"
    /\ lexResult' = LexerAnalyze(token)
    /\ pc' = "lexical_done"
    /\ UNCHANGED <<token, header, payload, secret, header_str, payload_str, t_actual,
                   synResult, semResult, encResult, verSecret, verResult,
                   plain, encoded, decoded, calls, lexer, parser>>

NextLex == analyze_jwt

SpecLex == InitLex /\ [][NextLex]_vars

\* A text is of the shape B+.B+.B+ : splitting at the delimiter gives exactly three
\* pieces, none empty, all of whose characters are of class b.
IsThreeSegments(text) ==
    LET parts == Split(text, DOT) IN
    /\ Len(parts) = 3
    /\ \A k \in 1..3 : /\ parts[k] # <<>>
                        /\ \A i \in 1..Len(parts[k]) : parts[k][i] \in b_chars

\* C1: JWTLexer.analyze returns valid=true iff the text is exactly three non-empty
\* runs of [A-Za-z0-9-_] separated by two dots; abc.def.ghi is accepted and
\* abc..ghi, abc.def, abc.def.ghi.jkl, ab!c.def.ghi and the empty text are rejected.
C1_LexicalAcceptance ==
    pc = "lexical_done" =>
        /\ lexResult.valid <=> IsThreeSegments(token)
        /\ token = <<97, 98, 99, 46, 100, 101, 102, 46, 103, 104, 105>> => lexResult.valid
        /\ token \in (LexExamples \ {<<97, 98, 99, 46, 100, 101, 102, 46, 103, 104, 105>>})
                       \cup {<<>>} => ~lexResult.valid

C1_Witness ==
    /\ pc = "lexical_done"
    /\ token = <<97, 98, 99, 46, 100, 101, 102, 46, 103, 104, 105>>
    /\ lexResult.valid

\* C12: when JWTLexer.analyze accepts, its result carries exactly three non-empty
\* segments, header, payload and signature being the first, second and third, whose
\* concatenation with dots is the input; when it rejects, the result has valid=false,
\* an empty tokens list and no header, payload or signature field.
C12_LexResultShape ==
    pc = "lexical_done" =>
        IF lexResult.valid
        THEN /\ Len(lexResult.tokens) = 3
             /\ \A k \in 1..3 : lexResult.tokens[k] # <<>>
             /\ lexResult.header = lexResult.tokens[1]
             /\ lexResult.payload = lexResult.tokens[2]
             /\ lexResult.signature = lexResult.tokens[3]
             /\ lexResult.header \o <<DOT>> \o lexResult.payload \o <<DOT>>
                    \o lexResult.signature = token
        ELSE /\ lexResult.tokens = <<>>
             /\ DOMAIN lexResult \cap {"header", "payload", "signature"} = {}

C12_Witness ==
    /\ pc = "lexical_done"
    /\ token = <<97, 46, 95, 97, 46, 97>>
    /\ lexResult.valid
    /\ lexResult.tokens = << <<97>>, <<95, 97>>, <<97>> >>
    /\ lexResult.signature = <<97>>

----------------------------------------------------------------------------
(* Semantic phase: POST /analyze/semantic *)

MaxTime == 2

Times == 0..MaxTime
\* NumericDate values around the clock values.
Dates == 0..(MaxTime + 1)

S_foo == <<102, 111, 111>>   \* foo
\* An optional item of a dict: absent, or the key with one of the values.
Opt(key, values) == {<<>>} \cup {<< <<key, x>> >> : x \in values}

SemAlgValues == {JStr(S_HS256), JStr(S_HS384), JStr(S_RS256), JInt(123)}
SemTypValues == {JStr(S_JWT), JStr(S_JWP), JInt(456)}

SemHeaders ==
    {JDict(a \o b) : a \in Opt(K_alg, SemAlgValues), b \in Opt(K_typ, SemTypValues)}

SemExpValues == {JInt(n) : n \in Dates} \cup {JStr(S_foo), JBool(TRUE), JFloat(15, 1)}
SemNbfValues == {JInt(n) : n \in Dates} \cup {JStr(S_foo)}
SemIatValues == {JInt(1), JStr(S_foo)}
SemIssValues == {JStr(S_foo), JInt(123)}
SemSubValues == {JInt(456)}
SemAudValues == {JStr(S_foo), JList(<<JStr(S_foo), JInt(123)>>), JInt(789)}

SemPayloads ==
    {JDict(e \o n \o i \o s \o u \o a) :
        e \in Opt(K_exp, SemExpValues), n \in Opt(K_nbf, SemNbfValues),
        i \in Opt(K_iat, SemIatValues), s \in Opt(K_iss, SemIssValues),
        u \in Opt(K_sub, SemSubValues), a \in Opt(K_aud, SemAudValues)}

InitSem ==
    /\ header \in SemHeaders
    /\ payload \in SemPayloads
    /\ t_actual \in Times
    /\ pc = "semantic"
    /\ semResult = None
    /\ token = None /\ secret = None
    /\ header_str = None /\ payload_str = None
    /\ lexResult = None /\ synResult = None /\ encResult = None
    /\ verSecret = None /\ verResult = None
    /\ plain = None /\ encoded = None /\ decoded = None
    /\ calls = None /\ lexer = None /\ parser = None

\* analyze_jwt_semantic: result = semantic_analyzer.analyze(header_map, payload_map)
analyze_jwt_semantic ==
    /\ pc = "semantic"
    /\ semResult' = SemanticAnalyze(header, payload, t_actual)
    /\ pc' = "semantic_done"
    /\ UNCHANGED <<token, header, payload, secret, header_str, payload_str, t_actual,
                   lexResult, synResult, encResult, verSecret, verResult,
                   plain, encoded, decoded, calls, lexer, parser>>

NextSem == analyze_jwt_semantic

SpecSem == InitSem /\ [][NextSem]_vars

\* The header carries alg HS256 or HS384 and typ JWT, both Strings.
ValidHeader(h) ==
    /\ Has(h, K_alg) /\ Get(h, K_alg) \in {JStr(S_HS256), JStr(S_HS384)}
    /\ Has(h, K_typ) /\ Get(h, K_typ) = JStr(S_JWT)

\* The claim is present with a JSON Integer value.
IsInteger(m, key) == Has(m, key) /\ Get(m, key).t = "int"

\* C8: with a valid header and an Integer exp, SemanticAnalyzer.analyze fails with
\* ExpirationDateError exactly when now >= exp (the boundary now = exp included), and
\* raises nothing about exp when now < exp.
C8_SemanticExpiry ==
    (pc = "semantic_done" /\ ValidHeader(header) /\ IsInteger(payload, K_exp)) =>
        /\ (semResult.error = "ExpirationDateError") <=> (t_actual >= Get(payload, K_exp).v)
        /\ t_actual < Get(payload, K_exp).v => ~(~semResult.ok /\ semResult.claim = K_exp)

C8_Witness ==
    /\ pc = "semantic_done" /\ ValidHeader(header) /\ IsInteger(payload, K_exp)
    /\ t_actual = Get(payload, K_exp).v
    /\ semResult.error = "ExpirationDateError"

\* C9 as stated: with a valid header, an Integer nbf and no expired exp (no exp that
\* is a number at or before now), SemanticAnalyzer.analyze fails with
\* NotActiveTokenError exactly when now < nbf.
C9_Original ==
    (/\ pc = "semantic_done" /\ ValidHeader(header) /\ IsInteger(payload, K_nbf)
     /\ ~(/\ Has(payload, K_exp) /\ Get(payload, K_exp).t \in {"int", "bool"}
          /\ t_actual >= IntValue(Get(payload, K_exp)))) =>
        /\ (semResult.error = "NotActiveTokenError") <=> (t_actual < Get(payload, K_nbf).v)
        /\ t_actual >= Get(payload, K_nbf).v => ~(~semResult.ok /\ semResult.claim = K_nbf)

\* C9 (amended): with a valid header, an Integer nbf, and exp either absent or an
\* Integer with now < exp, SemanticAnalyzer.analyze fails with NotActiveTokenError
\* exactly when now < nbf, and raises nothing about nbf when now >= nbf.
C9_SemanticActivation ==
    (/\ pc = "semantic_done" /\ ValidHeader(header) /\ IsInteger(payload, K_nbf)
     /\ (Has(payload, K_exp) => IsInteger(payload, K_exp) /\ t_actual < Get(payload, K_exp).v)) =>
        /\ (semResult.error = "NotActiveTokenError") <=> (t_actual < Get(payload, K_nbf).v)
        /\ t_actual >= Get(payload, K_nbf).v => ~(~semResult.ok /\ semResult.claim = K_nbf)

C9_Witness ==
    /\ pc = "semantic_done" /\ ValidHeader(header) /\ IsInteger(payload, K_nbf)
    /\ IsInteger(payload, K_exp) /\ t_actual < Get(payload, K_exp).v
    /\ t_actual + 1 = Get(payload, K_nbf).v
    /\ semResult.error = "NotActiveTokenError"

SemanticErrorKinds ==
    {"MissingClaimError", "InvalidDataTypeError", "InvalidValueError",
     "ExpirationDateError", "NotActiveTokenError"}

\* The alg claim alone is in order: a String naming HS256 or HS384.
AlgInOrder(h) == Has(h, K_alg) /\ Get(h, K_alg) \in {JStr(S_HS256), JStr(S_HS384)}
\* The typ claim alone is in order: the String JWT.
TypInOrder(h) == Has(h, K_typ) /\ Get(h, K_typ) = JStr(S_JWT)

\* No payload rule is violated at time t.
PayloadInOrder(p, t) ==
    /\ Has(p, K_exp) => IsInteger(p, K_exp) /\ t < Get(p, K_exp).v
    /\ Has(p, K_nbf) => IsInteger(p, K_nbf) /\ t >= Get(p, K_nbf).v
    /\ Has(p, K_iat) => IsInteger(p, K_iat)
    /\ Has(p, K_iss) => Get(p, K_iss).t = "str"
    /\ Has(p, K_sub) => Get(p, K_sub).t = "str"
    /\ Has(p, K_aud) => \/ Get(p, K_aud).t = "str"
                        \/ /\ Get(p, K_aud).t = "list"
                           /\ \A i \in 1..Len(Get(p, K_aud).v) : Get(p, K_aud).v[i].t = "str"

\* C10: a header with exactly one violation raises MissingClaimError when alg or typ
\* is absent, InvalidDataTypeError when alg or typ is present and not a String,
\* InvalidValueError when alg is an unsupported String or typ a String other than JWT;
\* every failure is of one of the five kinds; a valid header with a payload free of
\* violations yields ok.
C10_HeaderErrorKinds ==
    pc = "semantic_done" =>
        /\ (~Has(header, K_alg) /\ TypInOrder(header)) => semResult.error = "MissingClaimError"
        /\ (~Has(header, K_typ) /\ AlgInOrder(header)) => semResult.error = "MissingClaimError"
        /\ (Has(header, K_alg) /\ Get(header, K_alg).t # "str" /\ TypInOrder(header))
              => semResult.error = "InvalidDataTypeError"
        /\ (Has(header, K_typ) /\ Get(header, K_typ).t # "str" /\ AlgInOrder(header))
              => semResult.error = "InvalidDataTypeError"
        /\ (Has(header, K_alg) /\ Get(header, K_alg).t = "str" /\ ~AlgInOrder(header)
               /\ TypInOrder(header)) => semResult.error = "InvalidValueError"
        /\ (Has(header, K_typ) /\ Get(header, K_typ).t = "str" /\ ~TypInOrder(header)
               /\ AlgInOrder(header)) => semResult.error = "InvalidValueError"
        /\ ~semResult.ok => semResult.error \in SemanticErrorKinds
        /\ (ValidHeader(header) /\ PayloadInOrder(payload, t_actual)) => semResult.ok

C10_Witness ==
    /\ pc = "semantic_done"
    /\ header = JDict(<< <<K_alg, JStr(S_RS256)>>, <<K_typ, JStr(S_JWT)>> >>)
    /\ semResult.error = "InvalidValueError"

\* The exp rules hold of payload p at time t: exp is absent, or an Integer after t.
ExpInOrder(p, t) == Has(p, K_exp) => IsInteger(p, K_exp) /\ t < Get(p, K_exp).v
\* The nbf rules hold of payload p at time t: nbf is absent, or an Integer not after t.
NbfInOrder(p, t) == Has(p, K_nbf) => IsInteger(p, K_nbf) /\ t >= Get(p, K_nbf).v

\* The claims that precede key in the order exp, nbf, iat are in order.
DatesBeforeInOrder(p, key, t) ==
    /\ key \in {K_nbf, K_iat} => ExpInOrder(p, t)
    /\ key = K_iat => NbfInOrder(p, t)

\* The entry analyze_syntax appends for a NumericDate claim that is not an integer.
DateMessage(key) ==
    IF key = K_iat THEN "Claim 'iat' debe ser entero."
    ELSE IF key = K_exp THEN "Claim 'exp' debe ser entero."
    ELSE "Claim 'nbf' debe ser entero."

\* C11: with a valid header, a payload whose exp, nbf or iat is present with a value
\* that is not an Integer (Null, Bool, Float, String, Array or Object), the claims
\* before it being in order, makes SemanticAnalyzer.analyze fail with
\* InvalidDataTypeError for that claim, and analyze_syntax on the serialised header
\* and payload records the must-be-integer entry for it.
C11_NonIntegerDate ==
    (pc = "semantic_done" /\ ValidHeader(header)) =>
        \A key \in {K_exp, K_nbf, K_iat} :
            (/\ Has(payload, key) /\ Get(payload, key).t # "int"
             /\ DatesBeforeInOrder(payload, key, t_actual)) =>
                /\ semResult.error = "InvalidDataTypeError" /\ semResult.claim = key
                /\ \E k \in 1..Len(analyze_syntax(Dumps(header), Dumps(payload)).errors) :
                       analyze_syntax(Dumps(header), Dumps(payload)).errors[k]
                           = DateMessage(key)

\* The outcome of the header checks taken in the order alg present, alg String, alg
\* supported, typ present, typ String, typ JWT: the error of the first one violated.
HeaderFirstViolation(h) ==
    IF ~Has(h, K_alg) THEN Raise("MissingClaimError", K_alg)
    ELSE IF Get(h, K_alg).t # "str" THEN Raise("InvalidDataTypeError", K_alg)
    ELSE IF Get(h, K_alg).v \notin {S_HS256, S_HS384} THEN Raise("InvalidValueError", K_alg)
    ELSE IF ~Has(h, K_typ) THEN Raise("MissingClaimError", K_typ)
    ELSE IF Get(h, K_typ).t # "str" THEN Raise("InvalidDataTypeError", K_typ)
    ELSE IF Get(h, K_typ).v # S_JWT THEN Raise("InvalidValueError", K_typ)
    ELSE Passed

\* C16: the header checks of SemanticAnalyzer run in the order alg present, alg
\* String, alg in {HS256, HS384}, typ present, typ String, typ JWT, and for a header
\* with several violations the error raised is that of the first violated check in
\* this order (a non-String alg and no typ yields InvalidDataTypeError, an unsupported
\* alg and no typ yields InvalidValueError).
C16_HeaderCheckOrder ==
    (pc = "semantic_done" /\ ~HeaderFirstViolation(header).ok) =>
        semResult = HeaderFirstViolation(header)

\* The outcome of the payload checks taken in the order exp, nbf, iat, iss, sub, aud:
\* the error of the first claim violated at time t.
PayloadFirstViolation(p, t) ==
    IF Has(p, K_exp) /\ Get(p, K_exp).t # "int" THEN Raise("InvalidDataTypeError", K_exp)
    ELSE IF Has(p, K_exp) /\ t >= Get(p, K_exp).v THEN Raise("ExpirationDateError", K_exp)
    ELSE IF Has(p, K_nbf) /\ Get(p, K_nbf).t # "int" THEN Raise("InvalidDataTypeError", K_nbf)
    ELSE IF Has(p, K_nbf) /\ t < Get(p, K_nbf).v THEN Raise("NotActiveTokenError", K_nbf)
    ELSE IF Has(p, K_iat) /\ Get(p, K_iat).t # "int" THEN Raise("InvalidDataTypeError", K_iat)
    ELSE IF Has(p, K_iss) /\ Get(p, K_iss).t # "str" THEN Raise("InvalidDataTypeError", K_iss)
    ELSE IF Has(p, K_sub) /\ Get(p, K_sub).t # "str" THEN Raise("InvalidDataTypeError", K_sub)
    ELSE IF /\ Has(p, K_aud) /\ Get(p, K_aud).t # "str"
            /\ ~(/\ Get(p, K_aud).t = "list"
                 /\ \A i \in 1..Len(Get(p, K_aud).v) : Get(p, K_aud).v[i].t = "str")
         THEN Raise("InvalidDataTypeError", K_aud)
    ELSE Passed

\* C17: a header violation takes precedence over every payload violation, and with
\* a valid header the error raised for a payload is the one of the earliest violated
\* claim in the order exp, nbf, iat, iss, sub, aud (an expired exp together with a
\* non-Integer nbf yields ExpirationDateError).
C17_PayloadCheckOrder ==
    pc = "semantic_done" =>
        /\ ~ValidHeader(header) => ~semResult.ok /\ semResult.claim \in {K_alg, K_typ}
        /\ (ValidHeader(header) /\ ~PayloadFirstViolation(payload, t_actual).ok)
               => semResult = PayloadFirstViolation(payload, t_actual)

----------------------------------------------------------------------------
(* Syntactic phase: POST /analyze/syntax *)

SynAlgValues == {JStr(S_HS256), JStr(S_RS256), JInt(123)}
SynTypValues == {JStr(S_JWT), JStr(S_JWX), JInt(456)}

SynHeaders ==
    {JDict(a \o b) : a \in Opt(K_alg, SynAlgValues), b \in Opt(K_typ, SynTypValues)}

SynDateValues == {JInt(1), JStr(S_foo), JBool(TRUE)}
SynAudValues == {JStr(S_foo), JList(<<JStr(S_foo)>>), JList(<<JStr(S_foo), JInt(123)>>), JInt(789)}
SynPermValues == {JList(<<JStr(S_foo)>>), JStr(S_foo)}

SynPayloads ==
    {JDict(i \o e \o n \o a \o q) :
        i \in Opt(K_iat, SynDateValues), e \in Opt(K_exp, SynDateValues),
        n \in Opt(K_nbf, SynDateValues), a \in Opt(K_aud, SynAudValues),
        q \in Opt(K_permissions, SynPermValues)}

\* Texts that are not the serialisation of an object: an array, a number, a string,
\* a literal, a number with a leading zero, and two texts that are not JSON.
SynRawTexts ==
    { <<91, 93>>, <<49>>, <<34, 97, 108, 103, 34>>, <<110, 117, 108, 108>>,
      <<48, 49>>, <<123>>, <<>> }

SynHeaderTexts == {Dumps(h) : h \in SynHeaders} \cup SynRawTexts
SynPayloadTexts == {Dumps(q) : q \in SynPayloads} \cup SynRawTexts

InitSyn ==
    /\ header_str \in SynHeaderTexts
    /\ payload_str \in SynPayloadTexts
    /\ pc = "syntax"
    /\ synResult = None
    /\ token = None /\ header = None /\ payload = None /\ secret = None
    /\ t_actual = 0
    /\ lexResult = None /\ semResult = None /\ encResult = None
    /\ verSecret = None /\ verResult = None
    /\ plain = None /\ encoded = None /\ decoded = None
    /\ calls = None /\ lexer = None /\ parser = None

\* syntax_analyzer_endpoint: result = analyze_syntax(header_str, payload_str)
syntax_analyzer_endpoint ==
    /\ pc = "syntax"
    /\ synResult' = analyze_syntax(header_str, payload_str)
    /\ pc' = "syntax_done"
    /\ UNCHANGED <<token, header, payload, secret, header_str, payload_str, t_actual,
                   lexResult, semResult, encResult, verSecret, verResult,
                   plain, encoded, decoded, calls, lexer, parser>>

NextSyn == syntax_analyzer_endpoint

SpecSyn == InitSyn /\ [][NextSyn]_vars

\* The text {"alg":123,"typ":"JWX"}
Text_alg123_typJWX ==
    <<123, 34, 97, 108, 103, 34, 58, 49, 50, 51, 44, 34, 116, 121, 112, 34, 58, 34, 74, 87, 88, 34, 125>>
\* The messages of analyze_syntax that report a violation on alg.
AlgViolations == {"Header faltante 'alg'."}
\* The message of analyze_syntax that reports a typ other than JWT.
TypMismatch == "Header 'typ' debe ser exactamente 'JWT' (FATAL)."

\* C6: analyze_syntax on header text {"alg":123,"typ":"JWX"} and payload text {}
\* returns valid=false with an errors list holding both an alg type violation and a
\* typ mismatch violation.
C6_StructuralAggregation ==
    (pc = "syntax_done" /\ header_str = Text_alg123_typJWX /\ payload_str = <<123, 125>>) =>
        /\ ~synResult.raised /\ ~synResult.valid
        /\ \E k \in 1..Len(synResult.errors) : synResult.errors[k] \in AlgViolations
        /\ \E k \in 1..Len(synResult.errors) : synResult.errors[k] = TypMismatch

\* analyze_syntax returned a result whose header is an Object.
HeaderParsed == ~synResult.raised /\ synResult.header # None /\ synResult.header.t = "dict"

\* C15: a header whose alg is a value other than HS256 and HS384, with typ JWT, is
\* rejected by both phases: analyze_syntax returns valid=false with an error about
\* alg, and SemanticAnalyzer.analyze fails with InvalidValueError.
C15_UnsupportedAlgBothPhases ==
    (/\ pc = "syntax_done" /\ HeaderParsed
     /\ Has(synResult.header, K_alg) /\ ~AlgInOrder(synResult.header)
     /\ TypInOrder(synResult.header)) =>
        /\ ~synResult.valid
        /\ \E k \in 1..Len(synResult.errors) : synResult.errors[k] \in AlgViolations
        /\ SemanticAnalyze(synResult.header, synResult.payload, t_actual).error
               = "InvalidValueError"

\* analyze_syntax returned a result whose header and payload are Objects.
BothParsedToObjects ==
    /\ HeaderParsed
    /\ synResult.payload # None /\ synResult.payload.t = "dict"

\* The value is a String, or an Array of Strings only.
IsStringOrStrings(x) ==
    \/ x.t = "str"
    \/ x.t = "list" /\ \A i \in 1..Len(x.v) : x.v[i].t = "str"

\* The entry of a rule, when the rule is violated.
EntryWhen(violated, message) == IF violated THEN {message} ELSE {}

\* The entries for the structural rules that header h and payload p violate.
StructuralViolations(h, p) ==
    EntryWhen(~Has(h, K_alg), "Header faltante 'alg'.")
    \cup EntryWhen(~Has(h, K_typ), "Header faltante 'typ'.")
    \cup EntryWhen(Has(h, K_typ) /\ Get(h, K_typ) # JStr(S_JWT), TypMismatch)
    \cup {DateMessage(key) : key \in {k \in {K_iat, K_exp, K_nbf} :
                                         Has(p, k) /\ Get(p, k).t # "int"}}
    \cup EntryWhen(/\ Has(p, K_aud) /\ Get(p, K_aud).t = "list"
                   /\ ~IsStringOrStrings(Get(p, K_aud)),
                   "Claim 'aud' debe ser lista de strings.")
    \cup EntryWhen(Has(p, K_aud) /\ Get(p, K_aud).t \notin {"str", "list"},
                   "Claim 'aud' debe ser string o lista.")
    \cup EntryWhen(/\ Has(p, K_permissions)
                   /\ ~(/\ Get(p, K_permissions).t = "list"
                        /\ IsStringOrStrings(Get(p, K_permissions))),
                   "Claim 'permissions' debe ser lista de strings.")

\* C18: for header and payload texts that parse to Objects, the errors list of
\* analyze_syntax holds an entry for every violated structural rule (alg missing, typ
\* missing, typ not JWT, iat, exp or nbf not an Integer, aud neither a String nor an
\* Array of Strings, permissions not an Array of Strings) and none for a rule that is
\* not violated.
C18_AggregatesEveryViolation ==
    (pc = "syntax_done" /\ BothParsedToObjects) =>
        {synResult.errors[k] : k \in 1..Len(synResult.errors)}
            = StructuralViolations(synResult.header, synResult.payload)

\* C19: on every return path of analyze_syntax, valid is true exactly when the errors
\* list is empty; a result returned after a parse failure (no header, no payload) has
\* valid=false and a non-empty errors list.
C19_ValidIffNoErrors ==
    (pc = "syntax_done" /\ ~synResult.raised) =>
        /\ synResult.valid <=> (synResult.errors = <<>>)
        /\ (synResult.header = None /\ synResult.payload = None)
               => ~synResult.valid /\ synResult.errors # <<>>

\* Both return paths happen: this is the one with no error, on the texts
\* {"alg":"HS256","typ":"JWT"} and {"exp":1}.
C19_Witness ==
    /\ pc = "syntax_done" /\ ~synResult.raised
    /\ header_str = Dumps(JDict(<< <<K_alg, JStr(S_HS256)>>, <<K_typ, JStr(S_JWT)>> >>))
    /\ payload_str = Dumps(JDict(<< <<K_exp, JInt(1)>> >>))
    /\ synResult.valid /\ synResult.errors = <<>>
    /\ synResult.header # None

\* The text is rejected by the primary parser and by the fallback parser.
RejectedByBoth(text) == ~parse_json_manual(text).ok /\ ~json_loads(text).ok

\* The entries analyze_syntax reports for a text no parser accepts.
ParseErrors == {"Header invalido", "Payload invalido"}

\* C20: when the header text or the payload text is rejected by both parsers,
\* analyze_syntax returns valid=false with a single parse error and neither header
\* nor payload, also when only the payload text is rejected; no entry of a
\* structural check is in the errors list.
C20_ParseFailureAborts ==
    (pc = "syntax_done" /\ (RejectedByBoth(header_str) \/ RejectedByBoth(payload_str))) =>
        /\ ~synResult.raised /\ ~synResult.valid
        /\ Len(synResult.errors) = 1 /\ synResult.errors[1] \in ParseErrors
        /\ synResult.errors[1] = "Header invalido" <=> RejectedByBoth(header_str)
        /\ synResult.header = None /\ synResult.payload = None

\* The header text {} parses (and misses alg and typ), the payload text { does not.
C20_Witness ==
    /\ pc = "syntax_done"
    /\ header_str = <<123, 125>> /\ payload_str = <<123>>
    /\ ~RejectedByBoth(header_str) /\ RejectedByBoth(payload_str)
    /\ synResult.errors = <<"Payload invalido">>
    /\ synResult.header = None /\ synResult.payload = None

\* The entries analyze_syntax appends for a top-level value that is not an Object.
HeaderNotObject == "Header debe ser objeto JSON."
PayloadNotObject == "Payload debe ser objeto JSON."

\* The text is accepted by the primary parser or, failing that, by the fallback.
ParsesAsJson(text) == parse_with_fallback(text).ok

\* The top-level value of a text that parses.
TopLevel(text) == parse_with_fallback(text).v

\* C21: for header and payload texts that both parse as JSON, analyze_syntax never
\* raises, and when the top-level value of one of them is not an Object it returns
\* valid=false with the must-be-an-Object entry for that text in the errors list.
C21_NonObjectReported ==
    (pc = "syntax_done" /\ ParsesAsJson(header_str) /\ ParsesAsJson(payload_str)) =>
        /\ ~synResult.raised
        /\ TopLevel(header_str).t # "dict" =>
               /\ ~synResult.valid
               /\ \E k \in 1..Len(synResult.errors) : synResult.errors[k] = HeaderNotObject
        /\ TopLevel(payload_str).t # "dict" =>
               /\ ~synResult.valid
               /\ \E k \in 1..Len(synResult.errors) : synResult.errors[k] = PayloadNotObject

\* The primary parser accepts the text only if the reference parser accepts it too,
\* with the same value.
AgreesWithReference(text) ==
    parse_json_manual(text).ok =>
        /\ json_loads(text).ok
        /\ json_loads(text).v = parse_json_manual(text).v

\* C26: whenever the hand-written JSONParser accepts a text handed to analyze_syntax,
\* the reference parser json.loads accepts it as well and returns the same value, so
\* the structural phase accepts no text the reference grammar rejects (such as 01).
C26_PrimaryWithinReference ==
    pc = "syntax_done" => AgreesWithReference(header_str) /\ AgreesWithReference(payload_str)

----------------------------------------------------------------------------
(* Minting and verification: POST /analyze/encoder, POST /analyze/crypto-verification *)

JwtHeaders ==
    { JDict(<< <<K_alg, JStr(S_HS256)>>, <<K_typ, JStr(S_JWT)>> >>),
      JDict(<< <<K_alg, JStr(S_HS384)>>, <<K_typ, JStr(S_JWT)>> >>),
      JDict(<< <<K_alg, JStr(S_RS256)>>, <<K_typ, JStr(S_JWT)>> >>),
      JDict(<< <<K_alg, JInt(123)>>, <<K_typ, JStr(S_JWT)>> >>),
      JDict(<< <<K_alg, JStr(S_RS256)>>, <<K_typ, JStr(S_JWX)>> >>),
      JDict(<< <<K_typ, JStr(S_JWT)>> >>) }

\* The empty payload, a payload that is active from time 1 until it expires at the
\* last clock value, a payload the structural checks reject, and a payload whose exp
\* is a Bool.
JwtPayloads ==
    { JDict(<<>>),
      JDict(<< <<K_sub, JStr(S_foo)>>, <<K_exp, JInt(MaxTime)>>, <<K_nbf, JInt(1)>> >>),
      JDict(<< <<K_iat, JStr(S_foo)>> >>),
      JDict(<< <<K_exp, JBool(TRUE)>> >>) }

\* The secrets "k", "k" followed by U+0000, "s", and a lone surrogate (a str that
\* request.get_json produces from the JSON text "\ud800").
Secrets == { <<107>>, <<107>> \o <<0>>, <<115>>, <<55296>> }

\* The tokens ImFsZyI.e30.e30, WyJhbGciXQ.e30.e30 and MQ.e30.e30, whose header segments
\* decode to the JSON texts "alg", ["alg"] and 1.
Token_header_string ==
    <<73, 109, 70, 115, 90, 121, 73, 46, 101, 51, 48, 46, 101, 51, 48>>
Token_header_array ==
    <<87, 121, 74, 104, 98, 71, 99, 105, 88, 81, 46, 101, 51, 48, 46, 101, 51, 48>>
Token_header_number ==
    <<77, 81, 46, 101, 51, 48, 46, 101, 51, 48>>

\* Token texts that arrive at the verifier without having been minted here.
ReceivedTokens ==
    { <<97, 98, 99, 46, 46, 103, 104, 105>>, <<97, 46, 98, 46, 99>>,
      <<97, 98, 99, 46, 100, 101, 102>>, <<101, 51, 48, 46, 101, 51, 48, 46, 101, 51, 48>>,
      <<>>, Token_header_string, Token_header_array, Token_header_number }

\* The characters a single character of a token is replaced by.
MutationChars == {49, 65, EQ, DOT, 233}

InitJwt ==
    /\ \/ /\ pc = "encoder"
          /\ header \in JwtHeaders /\ payload \in JwtPayloads /\ secret \in Secrets
          /\ t_actual \in Times
          /\ token = None
       \/ /\ pc = "received"
          /\ token \in ReceivedTokens
          /\ header = None /\ payload = None /\ secret = None
          /\ t_actual = 0
    /\ encResult = None
    /\ verSecret = None /\ verResult = None
    /\ header_str = None /\ payload_str = None
    /\ lexResult = None /\ synResult = None /\ semResult = None
    /\ plain = None /\ encoded = None /\ decoded = None
    /\ calls = None /\ lexer = None /\ parser = None

\* The response of encode_jwt_endpoint: 200 with the token, 400 for a ValueError
\* (the semantic errors and UnicodeEncodeError are ValueErrors), 500 otherwise.
EncoderResponse(r) ==
    [raised |-> r.raised, errors |-> r.errors, token |-> r.token, steps |-> r.steps,
     status |-> IF r.raised = "" THEN 200 ELSE IF r.raised = "TypeError" THEN 500 ELSE 400]

\* encode_jwt_endpoint: jwt_token = encode_jwt(header, payload, secret)
encode_jwt_endpoint ==
    /\ pc = "encoder"
    /\ encResult' = EncoderResponse(encode_jwt(header, payload, secret, t_actual))
    /\ token' = IF encResult'.raised = "" THEN encResult'.token ELSE token
    /\ pc' = IF encResult'.raised = "" THEN "issued" ELSE "encoder_failed"
    /\ UNCHANGED <<header, payload, secret, header_str, payload_str, t_actual,
                   lexResult, synResult, semResult, verSecret, verResult,
                   plain, encoded, decoded, calls, lexer, parser>>

\* Between minting and verification one character of a segment of the token is
\* replaced by a different character.
Tamper(pos, ch) ==
    /\ pc = "issued"
    /\ token[pos] # DOT /\ token[pos] # ch
    /\ token' = [token EXCEPT ![pos] = ch]
    /\ pc' = "tampered"
    /\ UNCHANGED <<header, payload, secret, header_str, payload_str, t_actual,
                   lexResult, synResult, semResult, encResult, verSecret, verResult,
                   plain, encoded, decoded, calls, lexer, parser>>

\* Between minting and verification a padding character is appended to the token.
pad_signature ==
    /\ pc = "issued"
    /\ token' = Append(token, EQ)
    /\ pc' = "padded"
    /\ UNCHANGED <<header, payload, secret, header_str, payload_str, t_actual,
                   lexResult, synResult, semResult, encResult, verSecret, verResult,
                   plain, encoded, decoded, calls, lexer, parser>>

\* Between minting and verification the clock advances to a later value.
time_passes(later) ==
    /\ pc = "issued"
    /\ later > t_actual
    /\ t_actual' = later
    /\ pc' = "aged"
    /\ UNCHANGED <<token, header, payload, secret, header_str, payload_str,
                   lexResult, synResult, semResult, encResult, verSecret, verResult,
                   plain, encoded, decoded, calls, lexer, parser>>

\* The response of verify_jwt_crypto: 200 for a valid token, 400 otherwise.
VerifierResponse(r) ==
    [valid |-> r.valid, error |-> r.error, algorithm |-> r.algorithm, header |-> r.header,
     payload |-> r.payload, status |-> IF r.valid THEN 200 ELSE 400]

\* verify_jwt_crypto running the semantic rules on the decoded token at the clock
\* value of the request.
verify_jwt_crypto_semantic(s) ==
    /\ pc \in {"issued", "aged", "tampered", "padded", "received"}
    /\ verSecret' = s
    /\ verResult' =
           Bind(verify_jwt_signature(token, s), LAMBDA r :
               IF r.valid /\ ~SemanticAnalyze(r.header, r.payload, t_actual).ok
               THEN VerifierResponse(VerifyInvalid("semantic"))
               ELSE VerifierResponse(r))
    /\ pc' = "verified"
    /\ UNCHANGED <<token, header, payload, secret, header_str, payload_str, t_actual,
                   lexResult, synResult, semResult, encResult,
                   plain, encoded, decoded, calls, lexer, parser>>

\* verify_jwt_crypto: result = verify_jwt_signature(jwt_token, secret)
verify_jwt_crypto(s) ==
    /\ pc \in {"issued", "aged", "tampered", "padded", "received"}
    /\ verSecret' = s
    /\ verResult' = VerifierResponse(verify_jwt_signature(token, s))
    /\ pc' = "verified"
    /\ UNCHANGED <<token, header, payload, secret, header_str, payload_str, t_actual,
                   lexResult, synResult, semResult, encResult,
                   plain, encoded, decoded, calls, lexer, parser>>

NextJwt ==
    \/ encode_jwt_endpoint
    \/ \E pos \in 1..(IF pc = "issued" THEN Len(token) ELSE 0), ch \in MutationChars :
           Tamper(pos, ch)
    \/ pad_signature
    \/ \E later \in Dates : time_passes(later)
    \/ \E s \in Secrets : verify_jwt_crypto(s)

SpecJwt == InitJwt /\ [][NextJwt]_vars

\* The token was minted by the encoder.
Minted == encResult # None /\ encResult.raised = ""

\* The token under verification is the minted token, unchanged.
Untampered == Minted /\ token = encResult.token

\* The token under verification is the minted token with exactly one character of
\* a segment replaced.
OneCharReplaced ==
    /\ Minted
    /\ Len(token) = Len(encResult.token)
    /\ Cardinality({i \in 1..Len(token) : token[i] # encResult.token[i]}) = 1
    /\ \A i \in 1..Len(token) : token[i] # encResult.token[i] => encResult.token[i] # DOT

C3_Original ==
    (pc = "verified" /\ Untampered /\ verSecret # secret) =>
        ~verResult.valid /\ verResult.error = "signature_mismatch"

\* The bytes HMAC keys on: the UTF-8 encoding of the secret up to its trailing zero bytes.
KeyBytes(secret_text) == RStripZero(Utf8Encode(secret_text))

\* C3: for every valid header/payload and any two secrets A and B, B encodable as
\* UTF-8 and the encodings of A and B different other than in trailing zero bytes,
\* verifying the token minted with A under B returns valid=false with the
\* signature-mismatch reason, and a result is always returned.
C3_SecretMismatch ==
    (pc = "verified" /\ Untampered /\ Encodable(verSecret)
       /\ KeyBytes(verSecret) # KeyBytes(secret)) =>
        ~verResult.valid /\ verResult.error = "signature_mismatch"

C3_Witness ==
    /\ pc = "verified" /\ Untampered
    /\ secret = <<107>> /\ verSecret = <<115>>
    /\ ~verResult.valid /\ verResult.error = "signature_mismatch"
    /\ verResult.header = header

\* C4: for every minted token, replacing any single character of the header, the
\* payload or the signature segment by a different character yields a token that
\* verification with the same secret reports as valid=false.
C4_MutationSensitivity ==
    (pc = "verified" /\ OneCharReplaced /\ verSecret = secret) => ~verResult.valid

\* A replacement in the payload segment that leaves the decoded payload unchanged
\* (only the unused low bits of the last character differ) was verified.
C4_Witness ==
    /\ pc = "verified" /\ OneCharReplaced /\ verSecret = secret
    /\ LET before == Split(encResult.token, DOT)
           after  == Split(token, DOT)
       IN  /\ Len(after) = 3
           /\ after[2] # before[2]
           /\ decode_base64url(after[2]) = decode_base64url(before[2])
    /\ ~verResult.valid /\ verResult.error = "signature_mismatch"

\* C5: for every token text the lexical scanner rejects, verification returns
\* valid=false with a shape/format error, before any decoding or signature computation.
C5_LexerFirst ==
    (pc = "verified" /\ ~LexerAnalyze(token).valid) =>
        ~verResult.valid /\ verResult.error = "format"

\* The header carries alg HS256 or HS384.
SupportedAlg(h) == Has(h, K_alg) /\ Get(h, K_alg) \in {JStr(S_HS256), JStr(S_HS384)}

\* C7 as stated: encode_jwt with a header whose alg is RS256, or any value other than
\* HS256/HS384, fails with UnsupportedAlgorithmError before any Base64URL encoding or
\* signing step, and no token is returned.
C7_Original ==
    (pc \in {"issued", "encoder_failed"} /\ Has(header, K_alg) /\ ~SupportedAlg(header)) =>
        /\ encResult.raised = "UnsupportedAlgorithmError"
        /\ encResult.steps = <<"syntax", "semantic">>
        /\ encResult.token = <<>>

\* C7: encode_jwt with a header whose alg is absent or other than HS256/HS384 fails
\* before any Base64URL encoding or signing step and returns no token; where alg is a
\* String, typ is JWT and the payload passes the structural checks, the failure is
\* the semantic phase's InvalidValueError.
C7_UnsupportedAlgorithm ==
    (pc \in {"issued", "encoder_failed"} /\ ~SupportedAlg(header)) =>
        /\ pc = "encoder_failed"
        /\ encResult.raised # ""
        /\ encResult.steps \in {<<"syntax">>, <<"syntax", "semantic">>}
        /\ encResult.token = <<>> /\ token = None
        /\ (/\ Has(header, K_alg) /\ Get(header, K_alg).t = "str"
            /\ Has(header, K_typ) /\ Get(header, K_typ) = JStr(S_JWT)
            /\ analyze_syntax(Dumps(header), Dumps(payload)).valid)
              => (encResult.raised = "InvalidValueError"
                  /\ encResult.steps = <<"syntax", "semantic">>)

C7_Witness ==
    /\ pc = "encoder_failed"
    /\ header = JDict(<< <<K_alg, JStr(S_RS256)>>, <<K_typ, JStr(S_JWT)>> >>)
    /\ encResult.raised = "InvalidValueError"
    /\ encResult.steps = <<"syntax", "semantic">>

\* C14: a token minted by encode_jwt at time t with exp = e > t is reported
\* valid=true by verify_jwt_signature with the same secret at every later clock value,
\* those at or after e included, with the payload it was minted from.
C14_NoExpiryInVerify ==
    (/\ pc = "verified" /\ Untampered /\ verSecret = secret
     /\ IsInteger(payload, K_exp)) =>
        /\ verResult.valid
        /\ verResult.payload = payload

C14_Witness ==
    /\ pc = "verified" /\ Untampered /\ verSecret = secret
    /\ IsInteger(payload, K_exp) /\ t_actual >= Get(payload, K_exp).v
    /\ verResult.valid
    /\ verResult.status = 200

----------------------------------------------------------------------------
(* Codec: encode_base64url followed by decode_base64url *)

MaxTextLen == 3

\* Characters the encoded texts are drawn from: of one, two, three and four UTF-8
\* bytes, two whose encodings use the characters 62 and 63 of the alphabet, and a
\* surrogate code point.
CodecAlphabet == {97, 62, 63, 233, 8364, 128512, 55296}

CodecTexts == SeqsUpTo(CodecAlphabet, MaxTextLen)

InitCodec ==
    /\ plain \in CodecTexts
    /\ pc = "codec"
    /\ encoded = None /\ decoded = None
    /\ calls = None /\ lexer = None /\ parser = None
    /\ token = None /\ header = None /\ payload = None /\ secret = None
    /\ header_str = None /\ payload_str = None /\ t_actual = 0
    /\ lexResult = None /\ synResult = None /\ semResult = None /\ encResult = None
    /\ verSecret = None /\ verResult = None

\* encode_base64url(plain): data.encode('utf-8') raises UnicodeEncodeError for a text
\* that is not encodable.
codec_encode ==
    /\ pc = "codec"
    /\ encoded' = IF Encodable(plain) THEN [ok |-> TRUE, segment |-> encode_base64url(plain)]
                  ELSE [ok |-> FALSE, segment |-> <<>>]
    /\ pc' = IF Encodable(plain) THEN "codec_encoded" ELSE "codec_encode_failed"
    /\ UNCHANGED <<token, header, payload, secret, header_str, payload_str, t_actual,
                   lexResult, synResult, semResult, encResult, verSecret, verResult,
                   plain, decoded, calls, lexer, parser>>

\* decode_base64url(segment) of the segment encode_base64url returned.
codec_decode ==
    /\ pc = "codec_encoded"
    /\ decoded' = decode_base64url(encoded.segment)
    /\ pc' = "codec_decoded"
    /\ UNCHANGED <<token, header, payload, secret, header_str, payload_str, t_actual,
                   lexResult, synResult, semResult, encResult, verSecret, verResult,
                   plain, encoded, calls, lexer, parser>>

NextCodec == codec_encode \/ codec_decode

SpecCodec == InitCodec /\ [][NextCodec]_vars

\* The segment is written in [A-Za-z0-9-_], is decoded to the text, and its padded
\* form is the segment followed by as many '=' as make its length a multiple of 4.
RoundTripOk(text, segment, result) ==
    /\ \A k \in 1..Len(segment) :
           segment[k] \in UpperChars \cup LowerChars \cup DigitChars \cup {MINUS, UNDER}
    /\ result.ok /\ result.text = text
    /\ Len(pad_base64(segment)) % 4 = 0
    /\ Len(pad_base64(segment)) - Len(segment) < 4
    /\ \A k \in (Len(segment) + 1)..Len(pad_base64(segment)) : pad_base64(segment)[k] = EQ

\* C13 as stated: for every text, encode_base64url returns a segment of characters of
\* [A-Za-z0-9-_] without '=', and decode_base64url of it, after restoring the padding
\* to a multiple of 4, returns the text.
C13_Original ==
    pc \in {"codec_decoded", "codec_encode_failed"} =>
        /\ pc = "codec_decoded"
        /\ RoundTripOk(plain, encoded.segment, decoded)

\* C13 (amended): the same for every text that has a UTF-8 encoding, that is, one
\* without a surrogate code point.
C13_CodecRoundTrip ==
    (pc \in {"codec_decoded", "codec_encode_failed"} /\ Encodable(plain)) =>
        /\ pc = "codec_decoded"
        /\ RoundTripOk(plain, encoded.segment, decoded)

C13_Witness ==
    /\ pc = "codec_decoded"
    /\ plain = <<233, 63, 63>>
    /\ encoded.segment = <<119, 54, 107, 95, 80, 119>>
    /\ Len(pad_base64(encoded.segment)) = 8
    /\ decoded.text = plain

\* The three segments of the token under verification.
TokenParts == Split(token, DOT)

\* The unpadded Base64URL HMAC of the token's own first two segments, under the
\* algorithm the verifier read from the header and the secret it was given.
RecomputedSignature ==
    sign_token_verifier(TokenParts[1], TokenParts[2], verResult.algorithm, verSecret).signature

\* C22: verify_jwt_signature returns valid=true only if the signature segment of the
\* token equals, character for character, the unpadded Base64URL HMAC recomputed over
\* header_b64 + "." + payload_b64 with the algorithm named in the header; a token whose
\* third segment is any other text (the signature followed by = padding) is invalid.
C22_ExactSignature ==
    (pc = "verified" /\ verResult.valid) =>
        /\ Len(TokenParts) = 3
        /\ TokenParts[3] = RecomputedSignature

\* The structural check and the semantic check on the inputs of encode_jwt, each run
\* on its own at the clock value of the request.
StructuralCheck == analyze_syntax(Dumps(header), Dumps(payload))
SemanticCheck == SemanticAnalyze(header, payload, t_actual)

\* C23: encode_jwt runs the structural check before the semantic check and both
\* before any Base64URL encoding or signing: when both checks reject the inputs it
\* fails with the aggregated structural error, which lists every entry of the
\* structural check, and a token is returned only if both checks passed.
C23_StructuralBeforeSemantic ==
    pc \in {"issued", "encoder_failed"} =>
        /\ (~StructuralCheck.valid /\ ~SemanticCheck.ok) =>
               /\ encResult.raised = "ValueError"
               /\ encResult.errors = StructuralCheck.errors
               /\ encResult.steps = <<"syntax">>
               /\ encResult.token = <<>> /\ token = None
        /\ encResult.raised = "" =>
               /\ StructuralCheck.valid /\ SemanticCheck.ok
               /\ encResult.steps = <<"syntax", "semantic", "base64", "sign">>

\* Header {"alg":"RS256","typ":"JWX"} with payload {"iat":"foo"}: two structural
\* entries, and the semantic check on its own rejects alg.
C23_Witness ==
    /\ pc = "encoder_failed"
    /\ header = JDict(<< <<K_alg, JStr(S_RS256)>>, <<K_typ, JStr(S_JWX)>> >>)
    /\ payload = JDict(<< <<K_iat, JStr(S_foo)>> >>)
    /\ SemanticCheck.error = "InvalidValueError"
    /\ encResult.raised = "ValueError"
    /\ encResult.errors = <<TypMismatch, DateMessage(K_iat)>>

\* The returns of verify_jwt_signature with valid=false, by the message they carry.
VerifyErrors ==
    {"format", "header_decode", "no_alg", "unsupported_alg", "sign", "signature_mismatch",
     "payload_decode", "unexpected"}

\* C24: for every token text and secret, verify_jwt_signature returns a result with a
\* boolean valid flag (an exception inside it becomes the unexpected-error result); a
\* result with valid=false carries an error message, a result carries the decoded
\* payload only when valid=true, and valid=true implies that the decoded header is an
\* Object whose alg is HS256 or HS384.
C24_VerifyResultShape ==
    pc = "verified" =>
        /\ verResult.valid \in BOOLEAN
        /\ ~verResult.valid => verResult.error \in VerifyErrors
        /\ verResult.payload # None => verResult.valid
        /\ verResult.valid =>
               /\ verResult.error = ""
               /\ verResult.header # None /\ verResult.header.t = "dict"
               /\ SupportedAlg(verResult.header)
               /\ verResult.header = decode_segment(TokenParts[1]).v

\* The header segment decodes to the string "alg": header["alg"] raises TypeError
\* inside verify_jwt_signature, which returns the unexpected-error result.
C24_Witness ==
    /\ pc = "verified"
    /\ token = Token_header_string
    /\ decode_segment(TokenParts[1]).v = JStr(K_alg)
    /\ ~verResult.valid /\ verResult.error = "unexpected"
    /\ verResult.payload = None /\ verResult.status = 400

\* C27: every token returned by encode_jwt is accepted by the lexical scanner: it has
\* exactly three non-empty segments over [A-Za-z0-9-_] with no = padding, and its first
\* two segments decode back to the compact JSON texts of the header and the payload.
C27_MintedTokenLexical ==
    (pc = "issued" /\ Untampered) =>
        /\ LexerAnalyze(token).valid
        /\ Len(TokenParts) = 3
        /\ \A k \in 1..3 : /\ TokenParts[k] # <<>>
                           /\ \A n \in 1..Len(TokenParts[k]) : TokenParts[k][n] \in b_chars
        /\ decode_base64url(TokenParts[1]) = [ok |-> TRUE, text |-> Dumps(header)]
        /\ decode_base64url(TokenParts[2]) = [ok |-> TRUE, text |-> Dumps(payload)]

\* A token minted for the payload with sub, exp and nbf, whose JSON text has a length
\* that base64 pads.
C27_Witness ==
    /\ pc = "issued" /\ Untampered
    /\ Has(payload, K_sub) /\ Has(payload, K_nbf)
    /\ Len(UrlsafeB64Encode(Utf8Encode(Dumps(payload)))) > Len(TokenParts[2])
    /\ LexerAnalyze(token).tokens = TokenParts
    /\ LexerAnalyze(token).header = encode_base64url(Dumps(header))

----------------------------------------------------------------------------
(* Concurrent requests on the module-level lexer: jwt_lexer = JWTLexer() *)

\* The number of requests served at the same time.
NumRequests == 2
Requests == 1..NumRequests

\* The texts a.a.a, a..a, a.a, a.a.a=, a.a.a.a and the empty text.
ConcTokens ==
    { <<97, 46, 97, 46, 97>>, <<97, 46, 46, 97>>, <<97, 46, 97>>,
      <<97, 46, 97, 46, 97, 61>>, <<97, 46, 97, 46, 97, 46, 97>>, <<>> }

\* JWTLexer.__init__: the attributes of the instance.
JWTLexer_init ==
    [b_chars |-> b_chars, d_chars |-> d_chars, start_state |-> start_state,
     final_state |-> final_state, transitions |-> transitions]

\* A request for the lexical analysis of tok, before analyze is entered.
NewCall(tok) ==
    [token |-> tok, pc |-> "request", current_state |-> "", i |-> 0, result |-> None]

InitConc ==
    /\ pc = "concurrent"
    /\ lexer = JWTLexer_init
    /\ calls \in [Requests -> {NewCall(tok) : tok \in ConcTokens}]
    /\ parser = None
    /\ token = None /\ header = None /\ payload = None /\ secret = None
    /\ header_str = None /\ payload_str = None /\ t_actual = 0
    /\ lexResult = None /\ synResult = None /\ semResult = None /\ encResult = None
    /\ verSecret = None /\ verResult = None
    /\ plain = None /\ encoded = None /\ decoded = None

\* self.get_char_class(char) on the shared instance.
self_get_char_class(self, char) ==
    IF char \in self.b_chars THEN "b"
    ELSE IF char \in self.d_chars THEN "d"
    ELSE "other"

\* Lines 71-87 of analyze: the result for the state the loop ended in.
analyze_result(self, current_state, tok) ==
    IF current_state \in self.final_state
    THEN Bind(Split(tok, DOT), LAMBDA tokens :
         [valid |-> TRUE, tokens |-> tokens,
          header    |-> IF Len(tokens) > 0 THEN tokens[1] ELSE <<>>,
          payload   |-> IF Len(tokens) > 1 THEN tokens[2] ELSE <<>>,
          signature |-> IF Len(tokens) > 2 THEN tokens[3] ELSE <<>>])
    ELSE [valid |-> FALSE, tokens |-> <<>>, error |-> "Invalid JWT format"]

\* Line 58: current_state = self.start_state
analyze_enter(r) ==
    /\ pc = "concurrent" /\ calls[r].pc = "request"
    /\ calls' = [calls EXCEPT ![r].pc = "for", ![r].current_state = lexer.start_state]
    /\ UNCHANGED <<token, header, payload, secret, header_str, payload_str, t_actual, pc,
                   lexResult, synResult, semResult, encResult, verSecret, verResult,
                   plain, encoded, decoded, lexer, parser>>

\* The state after one iteration of the loop on char from current_state.
loop_body(self, current_state, char) ==
    IF self_get_char_class(self, char) = "other" THEN "qe"
    ELSE self.transitions[current_state][self_get_char_class(self, char)]

\* One iteration of the loop with the automaton state kept in an attribute of the
\* instance (self.start_state) instead of a local variable.
analyze_for_shared_cursor(r) ==
    /\ pc = "concurrent" /\ calls[r].pc = "for"
    /\ IF calls[r].i = Len(calls[r].token)
       THEN /\ calls' = [calls EXCEPT ![r].pc = "isAccepted",
                                      ![r].current_state = lexer.start_state]
            /\ lexer' = lexer
       ELSE /\ lexer' = [lexer EXCEPT !.start_state =
                            loop_body(lexer, lexer.start_state,
                                      calls[r].token[calls[r].i + 1])]
            /\ calls' = [calls EXCEPT
                   ![r].i = calls[r].i + 1,
                   ![r].current_state = lexer'.start_state,
                   ![r].pc = IF self_get_char_class(lexer, calls[r].token[calls[r].i + 1])
                                  = "other"
                             THEN "isAccepted" ELSE "for"]
    /\ UNCHANGED <<token, header, payload, secret, header_str, payload_str, t_actual, pc,
                   lexResult, synResult, semResult, encResult, verSecret, verResult,
                   plain, encoded, decoded, parser>>

\* Lines 60-69: one iteration of  for char in token , or the end of the loop.
analyze_for(r) ==
    /\ pc = "concurrent" /\ calls[r].pc = "for"
    /\ IF calls[r].i = Len(calls[r].token)
       THEN calls' = [calls EXCEPT ![r].pc = "isAccepted"]
       ELSE calls' = [calls EXCEPT
                ![r].i = calls[r].i + 1,
                ![r].current_state =
                    loop_body(lexer, calls[r].current_state,
                              calls[r].token[calls[r].i + 1]),
                ![r].pc = IF self_get_char_class(lexer, calls[r].token[calls[r].i + 1])
                               = "other"
                          THEN "isAccepted" ELSE "for"]
    /\ lexer' = lexer
    /\ UNCHANGED <<token, header, payload, secret, header_str, payload_str, t_actual, pc,
                   lexResult, synResult, semResult, encResult, verSecret, verResult,
                   plain, encoded, decoded, parser>>

\* Lines 71-87: isAccepted and the returned dictionary.
analyze_return(r) ==
    /\ pc = "concurrent" /\ calls[r].pc = "isAccepted"
    /\ calls' = [calls EXCEPT
           ![r].pc = "returned",
           ![r].result = analyze_result(lexer, calls[r].current_state, calls[r].token)]
    /\ UNCHANGED <<token, header, payload, secret, header_str, payload_str, t_actual, pc,
                   lexResult, synResult, semResult, encResult, verSecret, verResult,
                   plain, encoded, decoded, lexer, parser>>

NextConc ==
    \E r \in Requests : analyze_enter(r) \/ analyze_for(r) \/ analyze_return(r)

SpecConc == InitConc /\ [][NextConc]_vars

\* C25: when several requests invoke analyze on the shared lexer instance, under any
\* interleaving of their steps each invocation returns the result it returns when
\* run alone: the automaton state of an invocation in its loop is the state a run
\* alone reaches on the characters it has consumed, and the attributes of the
\* instance are those set at construction.
C25_ConcurrentScans ==
    pc = "concurrent" =>
        /\ lexer = JWTLexer_init
        /\ \A r \in Requests :
              /\ calls[r].pc = "for" =>
                     calls[r].current_state
                         = LexerRun(start_state, calls[r].token, 1, calls[r].i)
              /\ calls[r].pc = "returned" =>
                     calls[r].result = LexerAnalyze(calls[r].token)

\* Request 1 has returned valid for a.a.a while request 2, entered before, is in the
\* middle of its loop on a..a and has reached the error state.
C25_Witness ==
    /\ pc = "concurrent"
    /\ calls[1].token = <<97, 46, 97, 46, 97>> /\ calls[1].pc = "returned"
    /\ calls[1].result.valid
    /\ calls[2].token = <<97, 46, 46, 97>> /\ calls[2].pc = "for"
    /\ calls[2].i = 3 /\ calls[2].current_state = "qe"

----------------------------------------------------------------------------
(* JSONParser.parse step by step: the cursor self.i and the calls in progress.     *)
(* parser is [text, i, stack, ret, status]: stack holds one frame per call in       *)
(* progress (the last is the one running), a frame being [fn, pc, start, acc, key]  *)
(* with pc the source line the call is at and acc the local out, obj, arr or value; *)
(* ret is the value the last finished call returned.                                *)

\* The longest text drawn from ParserAlphabet.
MaxParseLen == 3

\* The characters " \ 1 . - space [ ] and ,
ParserAlphabet == {QUOTE, BSLASH, 49, DOT, MINUS, 32, 91, 93, 44}

\* Longer texts:
\*   {"a":[1, 2.5],"b":"\u0041"}
\*   {}
\*   {"a":{"b":null}}
\*    true 
\*   [false,"x\n"]
\*   {"a" 1}
\*   "\u00zz"
\*   {"a":1,}
\*   [1 ,-2 . 5 ]
\*   [[], [1]
ParserExamples ==
    { <<123, 34, 97, 34, 58, 91, 49, 44, 32, 50, 46, 53, 93, 44, 34, 98, 34, 58, 34, 92, 117, 48, 48, 52, 49, 34, 125>>,
      <<123, 125>>,
      <<123, 34, 97, 34, 58, 123, 34, 98, 34, 58, 110, 117, 108, 108, 125, 125>>,
      <<32, 116, 114, 117, 101, 32>>,
      <<91, 102, 97, 108, 115, 101, 44, 34, 120, 92, 110, 34, 93>>,
      <<123, 34, 97, 34, 32, 49, 125>>,
      <<34, 92, 117, 48, 48, 122, 122, 34>>,
      <<123, 34, 97, 34, 58, 49, 44, 125>>,
      <<91, 49, 32, 44, 45, 50, 32, 46, 32, 53, 32, 93>>,
      <<91, 91, 93, 44, 32, 91, 49, 93>> }

ParserTexts == SeqsUpTo(ParserAlphabet, MaxParseLen) \cup ParserExamples

\* The line a call of fn starts at.
EntryLine(fn) ==
    CASE fn = "skip_ws" -> "28"
      [] fn = "parse" -> "36"
      [] fn = "parse_value" -> "44"
      [] fn = "parse_string" -> "65"
      [] fn = "parse_number" -> "101"
      [] fn = "parse_object" -> "123"
      [] fn = "parse_array" -> "146"

NewFrame(fn) == [fn |-> fn, pc |-> EntryLine(fn), start |-> 0, acc |-> <<>>, key |-> <<>>]

\* JSONParser(text) with parse() entered.
JSONParser_init(text) ==
    [text |-> text, i |-> 0, stack |-> <<NewFrame("parse")>>, ret |-> None,
     status |-> "running"]

Top(p) == p.stack[Len(p.stack)]

\* self.text[self.i], -1 at the end of the text.
Cur(p) == IF p.i < Len(p.text) THEN At(p.text, p.i) ELSE -1

\* The running call moves to line pc.
Goto(p, line) == [p EXCEPT !.stack[Len(p.stack)].pc = line]

\* self.i += n
Advance(p, n) == [p EXCEPT !.i = @ + n]

\* The running call calls fn and resumes at line pc when fn returns.
Call(p, line, fn) == [p EXCEPT !.stack = Append(Goto(p, line).stack, NewFrame(fn))]

\* The running call returns v.
Return(p, v) ==
    [p EXCEPT !.stack = SubSeq(p.stack, 1, Len(p.stack) - 1), !.ret = v,
              !.status = IF Len(p.stack) = 1 THEN "returned" ELSE "running"]

\* The running call raises: no caller catches, parse() ends.
RaiseError(p) == [p EXCEPT !.stack = <<>>, !.ret = None, !.status = "raised"]

\* The local out, obj, arr or value of the running call.
SetAcc(p, v) == [p EXCEPT !.stack[Len(p.stack)].acc = v]

\* skip_ws whose loop body does not move the cursor.
skip_ws_step_stay(p) ==
    IF p.i < Len(p.text) /\ Cur(p) \in WsChars THEN p
    ELSE [p EXCEPT !.stack = SubSeq(p.stack, 1, Len(p.stack) - 1)]

\* Lines 28-29: one test of the while condition of skip_ws, and its body.
skip_ws_step(p) ==
    IF p.i < Len(p.text) /\ Cur(p) \in WsChars THEN Advance(p, 1)
    ELSE [p EXCEPT !.stack = SubSeq(p.stack, 1, Len(p.stack) - 1)]

\* Lines 37-41 of parse.
parse_step(p) ==
    IF Top(p).pc = "36" THEN Call(p, "37", "parse_value")
    ELSE IF Top(p).pc = "37" THEN Call(SetAcc(p, p.ret), "38", "skip_ws")
    ELSE IF p.i # Len(p.text) THEN RaiseError(p)
    ELSE Return(p, Top(p).acc)

\* Lines 44-61 of parse_value; the skip_ws of peek in line 45 finds the cursor where
\* the skip_ws of line 44 left it.
parse_value_step(p) ==
    IF Top(p).pc = "44" THEN Call(p, "46", "skip_ws")
    ELSE IF Top(p).pc = "48" THEN Return(p, JStr(p.ret))
    ELSE IF Top(p).pc = "49" THEN Return(p, p.ret)
    ELSE IF Cur(p) = -1 THEN RaiseError(p)
    ELSE IF Cur(p) = QUOTE THEN Call(p, "48", "parse_string")
    ELSE IF Cur(p) = 123 THEN Call(p, "49", "parse_object")
    ELSE IF Cur(p) = 91 THEN Call(p, "49", "parse_array")
    ELSE IF PyIsDigit(Cur(p)) \/ Cur(p) = MINUS THEN Call(p, "49", "parse_number")
    ELSE IF StartsWith(p.text, S_true, p.i) THEN Return(Advance(p, 4), JBool(TRUE))
    ELSE IF StartsWith(p.text, S_false, p.i) THEN Return(Advance(p, 5), JBool(FALSE))
    ELSE IF StartsWith(p.text, S_null, p.i) THEN Return(Advance(p, 4), JNull)
    ELSE RaiseError(p)

\* out += c on the local out of parse_string, the cursor moved by n.
StringAppend(p, c, n) == Advance(SetAcc(p, Append(Top(p).acc, c)), n)

\* Lines 73-97: one round of the while loop of parse_string on the escape at the
\* cursor.
parse_string_escape(p, nxt) ==
    IF nxt \in {QUOTE, BSLASH, SLASH} THEN StringAppend(p, nxt, 2)
    ELSE IF nxt = 110 THEN StringAppend(p, 10, 2)
    ELSE IF nxt = 116 THEN StringAppend(p, 9, 2)
    ELSE IF nxt = 114 THEN StringAppend(p, 13, 2)
    ELSE IF nxt = 117
    THEN IF p.i + 6 > Len(p.text) THEN RaiseError(p)
         ELSE Bind(PyInt(SubSeq(p.text, p.i + 3, p.i + 6), 16), LAMBDA code :
              IF ~code.ok \/ code.v < 0 THEN RaiseError(p)
              ELSE StringAppend(p, code.v, 6))
    ELSE RaiseError(p)

\* Lines 65-98 of parse_string; line 70 is the head of the while loop.
parse_string_step(p) ==
    IF Top(p).pc = "65" THEN Call(p, "66", "skip_ws")
    ELSE IF Top(p).pc = "66"
    THEN IF Cur(p) # QUOTE THEN RaiseError(p)
         ELSE Goto(Advance(SetAcc(p, <<>>), 1), "70")
    ELSE IF p.i >= Len(p.text) THEN RaiseError(p)
    ELSE IF Cur(p) = QUOTE THEN Return(Advance(p, 1), Top(p).acc)
    ELSE IF Cur(p) = BSLASH
    THEN IF p.i + 1 >= Len(p.text) THEN RaiseError(p)
         ELSE parse_string_escape(p, At(p.text, p.i + 1))
    ELSE StringAppend(p, Cur(p), 1)

\* Lines 101-120 of parse_number; lines 106 and 112 are the heads of the two while
\* loops, whose condition calls peek, and with it skip_ws, after each digit.
parse_number_step(p) ==
    IF Top(p).pc = "101" THEN Call(p, "102", "skip_ws")
    ELSE IF Top(p).pc = "102"
    THEN IF Cur(p) = MINUS
         THEN Call(Advance([p EXCEPT !.stack[Len(p.stack)].start = p.i], 1), "104", "skip_ws")
         ELSE Goto([p EXCEPT !.stack[Len(p.stack)].start = p.i], "104")
    ELSE IF Top(p).pc = "104"
    THEN IF PyIsDigit(Cur(p)) THEN Goto(p, "106") ELSE RaiseError(p)
    ELSE IF Top(p).pc = "106"
    THEN IF PyIsDigit(Cur(p)) THEN Call(Advance(p, 1), "106", "skip_ws") ELSE Goto(p, "108")
    ELSE IF Top(p).pc = "108"
    THEN IF Cur(p) = DOT THEN Call(Advance(p, 1), "110", "skip_ws") ELSE Goto(p, "114")
    ELSE IF Top(p).pc = "110"
    THEN IF PyIsDigit(Cur(p)) THEN Goto(p, "112") ELSE RaiseError(p)
    ELSE IF Top(p).pc = "112"
    THEN IF PyIsDigit(Cur(p)) THEN Call(Advance(p, 1), "112", "skip_ws") ELSE Goto(p, "114")
    ELSE Bind(number_value(p.text, Top(p).start, p.i), LAMBDA num :
         IF num.ok THEN Return(p, num.v) ELSE RaiseError(p))

\* Lines 123-143 of parse_object; line 131 is the head of the while True loop.
parse_object_step(p) ==
    IF Top(p).pc = "123" THEN Call(p, "124", "skip_ws")
    ELSE IF Top(p).pc = "124"
    THEN IF Cur(p) # 123 THEN RaiseError(p)
         ELSE Call(Advance(SetAcc(p, <<>>), 1), "128", "skip_ws")
    ELSE IF Top(p).pc = "128"
    THEN IF Cur(p) = 125 THEN Return(Advance(p, 1), JDict(<<>>)) ELSE Goto(p, "131")
    ELSE IF Top(p).pc = "131" THEN Call(p, "132", "parse_string")
    ELSE IF Top(p).pc = "132"
    THEN Call([p EXCEPT !.stack[Len(p.stack)].key = p.ret], "133", "skip_ws")
    ELSE IF Top(p).pc = "133"
    THEN IF Cur(p) # 58 THEN RaiseError(p)
         ELSE Call(Advance(p, 1), "136", "parse_value")
    ELSE IF Top(p).pc = "136"
    THEN Call(SetAcc(p, DictSet(Top(p).acc, Top(p).key, p.ret)), "138", "skip_ws")
    ELSE IF Cur(p) = 125 THEN Return(Advance(p, 1), JDict(Top(p).acc))
    ELSE IF Cur(p) # 44 THEN RaiseError(p)
    ELSE Goto(Advance(p, 1), "131")

\* Lines 146-163 of parse_array; line 154 is the head of the while True loop.
parse_array_step(p) ==
    IF Top(p).pc = "146" THEN Call(p, "147", "skip_ws")
    ELSE IF Top(p).pc = "147"
    THEN IF Cur(p) # 91 THEN RaiseError(p)
         ELSE Call(Advance(SetAcc(p, <<>>), 1), "151", "skip_ws")
    ELSE IF Top(p).pc = "151"
    THEN IF Cur(p) = 93 THEN Return(Advance(p, 1), JList(<<>>)) ELSE Goto(p, "154")
    ELSE IF Top(p).pc = "154" THEN Call(p, "155", "parse_value")
    ELSE IF Top(p).pc = "155"
    THEN Call(SetAcc(p, Append(Top(p).acc, p.ret)), "156", "skip_ws")
    ELSE IF Cur(p) = 93 THEN Return(Advance(p, 1), JList(Top(p).acc))
    ELSE IF Cur(p) # 44 THEN RaiseError(p)
    ELSE Goto(Advance(p, 1), "154")

InitParser ==
    /\ pc = "parsing"
    /\ parser \in {JSONParser_init(text) : text \in ParserTexts}
    /\ calls = None /\ lexer = None
    /\ token = None /\ header = None /\ payload = None /\ secret = None
    /\ header_str = None /\ payload_str = None /\ t_actual = 0
    /\ lexResult = None /\ synResult = None /\ semResult = None /\ encResult = None
    /\ verSecret = None /\ verResult = None
    /\ plain = None /\ encoded = None /\ decoded = None

\* The call of fn that is running.
Running(fn) ==
    pc = "parsing" /\ parser.status = "running" /\ Top(parser).fn = fn

JSONParser_skip_ws ==
    /\ Running("skip_ws")
    /\ parser' = skip_ws_step(parser)
    /\ UNCHANGED <<token, header, payload, secret, header_str, payload_str, t_actual, pc,
                   lexResult, synResult, semResult, encResult, verSecret, verResult,
                   plain, encoded, decoded, calls, lexer>>

JSONParser_parse ==
    /\ Running("parse")
    /\ parser' = parse_step(parser)
    /\ UNCHANGED <<token, header, payload, secret, header_str, payload_str, t_actual, pc,
                   lexResult, synResult, semResult, encResult, verSecret, verResult,
                   plain, encoded, decoded, calls, lexer>>

JSONParser_parse_value ==
    /\ Running("parse_value")
    /\ parser' = parse_value_step(parser)
    /\ UNCHANGED <<token, header, payload, secret, header_str, payload_str, t_actual, pc,
                   lexResult, synResult, semResult, encResult, verSecret, verResult,
                   plain, encoded, decoded, calls, lexer>>

JSONParser_parse_string ==
    /\ Running("parse_string")
    /\ parser' = parse_string_step(parser)
    /\ UNCHANGED <<token, header, payload, secret, header_str, payload_str, t_actual, pc,
                   lexResult, synResult, semResult, encResult, verSecret, verResult,
                   plain, encoded, decoded, calls, lexer>>

JSONParser_parse_number ==
    /\ Running("parse_number")
    /\ parser' = parse_number_step(parser)
    /\ UNCHANGED <<token, header, payload, secret, header_str, payload_str, t_actual, pc,
                   lexResult, synResult, semResult, encResult, verSecret, verResult,
                   plain, encoded, decoded, calls, lexer>>

JSONParser_parse_object ==
    /\ Running("parse_object")
    /\ parser' = parse_object_step(parser)
    /\ UNCHANGED <<token, header, payload, secret, header_str, payload_str, t_actual, pc,
                   lexResult, synResult, semResult, encResult, verSecret, verResult,
                   plain, encoded, decoded, calls, lexer>>

JSONParser_parse_array ==
    /\ Running("parse_array")
    /\ parser' = parse_array_step(parser)
    /\ UNCHANGED <<token, header, payload, secret, header_str, payload_str, t_actual, pc,
                   lexResult, synResult, semResult, encResult, verSecret, verResult,
                   plain, encoded, decoded, calls, lexer>>

NextParser ==
    \/ JSONParser_skip_ws
    \/ JSONParser_parse
    \/ JSONParser_parse_value
    \/ JSONParser_parse_string
    \/ JSONParser_parse_number
    \/ JSONParser_parse_object
    \/ JSONParser_parse_array

\* The interpreter runs the call whenever it can take a step.
SpecParser == InitParser /\ [][NextParser]_vars /\ WF_vars(NextParser)

\* The step-by-step run ends as the recursive definition of the parser does: with the
\* same value and cursor when it returns, with an error when it raises.
ParserRunAgrees ==
    (pc = "parsing" /\ parser.status # "running") =>
        IF parser.status = "returned"
        THEN parse_json_manual(parser.text) = ParseOk(parser.ret, parser.i)
        ELSE ~parse_json_manual(parser.text).ok

\* The cursor is within the text.
CursorInRange == pc = "parsing" => 0 <= parser.i /\ parser.i <= Len(parser.text)

\* The lines a loop goes from and to when it starts another round: the while loops of
\* skip_ws, parse_string and parse_number, and the while True loops of parse_object
\* and parse_array after a comma.
LoopRounds ==
    { <<"28", "28">>, <<"70", "70">>, <<"106", "106">>, <<"112", "112">>,
      <<"138", "131">>, <<"156", "154">> }

\* The running call of p is still in progress in q and has started another round of
\* its loop.
AnotherRound(p, q) ==
    /\ q.status = "running" /\ Len(q.stack) >= Len(p.stack)
    /\ <<Top(p).pc, q.stack[Len(p.stack)].pc>> \in LoopRounds

\* A step of the parser does not move the cursor back, and moves it forward when it
\* starts another round of a loop.
CursorAdvances ==
    (pc = "parsing" /\ parser.status = "running") =>
        /\ parser'.i >= parser.i
        /\ AnotherRound(parser, parser') => parser'.i > parser.i

\* C28: JSONParser.parse terminates on every text: the cursor i never decreases and
\* stays within 0..len(text), every round of the string, number, object, array and
\* whitespace loops advances the cursor or leaves the loop, and the call ends by
\* returning or by raising.
C28_ParserTerminates ==
    /\ []CursorInRange
    /\ [][CursorAdvances]_vars
    /\ <>(pc = "parsing" /\ parser.status \in {"returned", "raised"})

\* The text {"a":[1, 2.5],"b":"\u0041"} has been parsed to the end: the object,
\* array, number, string and whitespace loops have all run.
C28_Witness ==
    /\ pc = "parsing" /\ parser.status = "returned"
    /\ parser.text \in ParserExamples /\ Len(parser.text) = 27
    /\ parser.i = Len(parser.text)
    /\ parser.ret = parse_json_manual(parser.text).v
    /\ Has(parser.ret, <<98>>) /\ Get(parser.ret, <<98>>) = JStr(<<65>>)

====
